---- MODULE Spec2Model ----
(***************************************************************************)
(* Model of the Mewati language tools: the Flask application (app.py), the *)
(* scoring heuristic (beauty_model_01.py) and the lookup tables, helpers   *)
(* and Tkinter GUI of mewati_model.py.                                     *)
(*                                                                         *)
(* Text that the code inspects character by character (user input, table   *)
(* keys, formatted messages) is a sequence of Unicode code points.  Table  *)
(* cells, which the code only stores and hands on, are strings in which a  *)
(* non-ASCII character is written as its \uXXXX escape.  A Python value    *)
(* that may be None is a sequence of length 0 (None) or 1 (the value).     *)
(***************************************************************************)
EXTENDS Integers, Sequences, FiniteSets, TLC

None == <<>>
Some(v) == <<v>>

\* ------------------------------------------------------------------------
\* Characters
\* ------------------------------------------------------------------------
URDU_FULL_STOP == 1748       \* U+06D4, the first mark normalize_sentence removes
ARABIC_QUESTION_MARK == 1567 \* U+061F
EXCLAMATION_MARK == 33       \* "!"
SPACE == 32

\* The characters for which str.isspace() holds; str.strip() and the
\* pattern \s of the re module (on str) use the same class.
WHITESPACE ==
  {9, 10, 11, 12, 13, 28, 29, 30, 31, 32, 133, 160, 5760,
   8192, 8193, 8194, 8195, 8196, 8197, 8198, 8199, 8200, 8201, 8202,
   8232, 8233, 8239, 8287, 12288}

isspace(c) == c \in WHITESPACE

\* ch.lower() in "aeiou" for a single character ch
VOWELS == {97, 101, 105, 111, 117, 65, 69, 73, 79, 85}

\* ------------------------------------------------------------------------
\* str methods and re.sub as used by the helpers
\* ------------------------------------------------------------------------
\* s.replace(c, "") for a one-character c
replace(s, c) == SelectSeq(s, LAMBDA x : x # c)

RECURSIVE lstrip(_)
lstrip(s) == IF s # <<>> /\ isspace(Head(s)) THEN lstrip(Tail(s)) ELSE s

RECURSIVE rstrip(_)
rstrip(s) ==
  IF s # <<>> /\ isspace(s[Len(s)]) THEN rstrip(SubSeq(s, 1, Len(s) - 1)) ELSE s

\* s.strip()
strip(s) == rstrip(lstrip(s))

\* re.sub(r"\s+", " ", s): every maximal whitespace run becomes one space
RECURSIVE re_sub_spaces(_)
re_sub_spaces(s) ==
  IF s = <<>> THEN <<>>
  ELSE IF isspace(Head(s)) THEN <<SPACE>> \o re_sub_spaces(lstrip(Tail(s)))
  ELSE <<Head(s)>> \o re_sub_spaces(Tail(s))

\* s.split(): the maximal runs of non-whitespace characters
RECURSIVE split(_)
split(s) ==
  LET t == lstrip(s)
      RECURSIVE word(_)
      word(u) == IF u = <<>> \/ isspace(Head(u)) THEN <<>>
                 ELSE <<Head(u)>> \o word(Tail(u))
  IN IF t = <<>> THEN <<>>
     ELSE <<word(t)>> \o split(SubSeq(t, Len(word(t)) + 1, Len(t)))

\* ------------------------------------------------------------------------
\* mewati_model.normalize_sentence
\* ------------------------------------------------------------------------
\* the marks removed after strip() instead of before it
normalize_sentence_strip_first(s) ==
  IF s = <<>> THEN <<>>
  ELSE re_sub_spaces(
         replace(replace(replace(strip(s), URDU_FULL_STOP),
                         ARABIC_QUESTION_MARK),
                 EXCLAMATION_MARK))

\* the replace("!", "") left out
normalize_sentence_keep_exclamation(s) ==
  IF s = <<>> THEN <<>>
  ELSE re_sub_spaces(
         strip(replace(replace(s, URDU_FULL_STOP), ARABIC_QUESTION_MARK)))

\* the whitespace runs collapsed before the marks are removed
normalize_sentence_collapse_first(s) ==
  IF s = <<>> THEN <<>>
  ELSE strip(replace(replace(replace(re_sub_spaces(s), URDU_FULL_STOP),
                             ARABIC_QUESTION_MARK),
                     EXCLAMATION_MARK))

\* re.sub(r"\s+", "", s): the whitespace runs removed, not replaced
normalize_sentence_drop_spaces(s) ==
  IF s = <<>> THEN <<>>
  ELSE SelectSeq(
         strip(replace(replace(replace(s, URDU_FULL_STOP),
                               ARABIC_QUESTION_MARK),
                       EXCLAMATION_MARK)),
         LAMBDA c : ~isspace(c))

normalize_sentence(s) ==
  IF s = <<>> THEN <<>>
  ELSE re_sub_spaces(
         strip(replace(replace(replace(s, URDU_FULL_STOP),
                               ARABIC_QUESTION_MARK),
                       EXCLAMATION_MARK)))

\* ------------------------------------------------------------------------
\* beauty_model_01.predict_beauty_score
\* ------------------------------------------------------------------------
\* "Please enter some text."
PLEASE_ENTER_SOME_TEXT ==
  <<80, 108, 101, 97, 115, 101, 32, 101, 110, 116, 101, 114, 32, 115, 111,
    109, 101, 32, 116, 101, 120, 116, 46>>

\* "Beauty Score for your text: "
BEAUTY_SCORE_PREFIX ==
  <<66, 101, 97, 117, 116, 121, 32, 83, 99, 111, 114, 101, 32, 102, 111, 114,
    32, 121, 111, 117, 114, 32, 116, 101, 120, 116, 58, 32>>

\* ch in "aeiou", the lower() left out
vowel_count_lower_only(cleaned) ==
  Len(SelectSeq(cleaned, LAMBDA ch : ch \in {97, 101, 105, 111, 117}))

\* sum(ch.lower() in "aeiou" for ch in cleaned)
vowel_count(cleaned) == Len(SelectSeq(cleaned, LAMBDA ch : ch \in VOWELS))

\* round(x, 2) of x = num/den >= 0, in hundredths: the nearest hundredth,
\* an exact tie going to the even one.  For the lengths below 200 the
\* double the code rounds is a tie exactly when num/den is.
round2(num, den) ==
  LET n == 100 * num
      q == n \div den
      r == n % den
  IN IF 2 * r > den \/ (2 * r = den /\ q % 2 = 1) THEN q + 1 ELSE q

\* The score in hundredths: round((length % 10) + vowel_ratio * 5, 2)
score_hundredths(length, vowels) ==
  IF length = 0 THEN 0
  ELSE (length % 10) * 100 + round2(5 * vowels, length)

\* str(n) for a natural number n
RECURSIVE digits(_)
digits(n) == IF n < 10 THEN <<48 + n>> ELSE digits(n \div 10) \o <<48 + (n % 10)>>

\* repr of a float that is a whole number of hundredths: two decimals at
\* most and one at least
format_float(h) ==
  LET f == h % 100
  IN digits(h \div 100) \o <<46>> \o
     (IF f % 10 = 0 THEN <<48 + (f \div 10)>>
      ELSE <<48 + (f \div 10), 48 + (f % 10)>>)

\* The text f"{score}" puts into the message.  With length 0 both summands
\* are ints and the score is the int 0; else it is a float.
format_score(length, vowels) ==
  IF length = 0 THEN <<48>>
  ELSE format_float(score_hundredths(length, vowels))

predict_beauty_score(text) ==
  IF text = <<>> THEN PLEASE_ENTER_SOME_TEXT
  ELSE LET cleaned == re_sub_spaces(strip(text))
           length == Len(cleaned)
           vowels == vowel_count(cleaned)
       IN BEAUTY_SCORE_PREFIX \o format_score(length, vowels)

\* MORPH_FEATURES: sentence -> rows (Word, Root, Morph Structure, Phonemic Change, Explanation).
MorphLiteral ==
  <<
     \* line 107
     [key |-> <<1580, 1576, 32, 1729, 1605, 1575, 1585, 1740, 32, 1705, 1604, 1575, 1587, 32, 1604, 1711, 1746, 32, 1705, 1585, 1746, 32, 1575, 1740>>,
      value |-> <<<<"\\u062c\\u0628", "\\u062c\\u0628", "Subordinating Conjunction (Temporal)", "\\u2014", "Introduces time clauses.">>,
                <<"\\u06c1\\u0645\\u0627\\u0631\\u06cc \\u06a9\\u0644\\u0627\\u0633", "\\u06c1\\u0645\\u0627\\u0631\\u06cc \\u06a9\\u0644\\u0627\\u0633", "[\\u06c1\\u0645 + \\u0627\\u0631\\u06cc] = Possessive Pronoun + Noun", "\\u0627\\u0631\\u06cc \\u2192 \\u06c1\\u0645\\u0627\\u0631\\u06cc", "Dialectal form of '\\u06c1\\u0645\\u0627\\u0631\\u06cc'.">>,
                <<"\\u0644\\u06af\\u06d2", "\\u0644\\u06af\\u062a\\u06cc", "[\\u0644\\u06af + \\u06d2 + \\u06a9\\u0631\\u06d2] = Root Verb + Aspect + Aux", "\\u0644\\u06af\\u06d2 \\u06a9\\u0631\\u06d2 \\u2192 \\u0644\\u06af\\u062a\\u06cc", "Compound with habitual aspect.">>,
                <<"\\u06a9\\u0631\\u06d2 \\u0627\\u06cc", "\\u062a\\u06be\\u06cc", "Copula/Aspect Marker (3rd fem past)", "\\u0627\\u06cc \\u2192 \\u062a\\u06be\\u06cc", "Reduced form of '\\u062a\\u06be\\u06cc'.">>>>],
     \* line 113
     [key |-> <<1705, 1729, 32, 1575, 1608, 32, 1705, 1578, 1606, 1608, 32, 1662, 1582, 1578, 1608, 32, 1604, 1705, 1726, 1575, 1585, 1740, 32, 1575, 1746>>,
      value |-> <<<<"\\u06a9\\u06c1", "\\u06a9\\u06c1", "Subordinating Conjunction", "\\u2014", "Same as Urdu.">>,
                <<"\\u0627\\u0648", "\\u0648\\u06c1", "3rd Person Pronoun", "\\u0627\\u0648 \\u2192 \\u0648\\u06c1", "Dialectal variation.">>,
                <<"\\u06a9\\u062a\\u0646\\u0648 \\u067e\\u062e\\u062a\\u0648", "\\u06a9\\u062a\\u0646\\u0627 \\u0627\\u0686\\u06be\\u0627", "Interrogative + Adjective", "\\u2192 \\u06a9\\u062a\\u0646\\u0627 \\u0627\\u0686\\u06be\\u0627", "Equivalent phrase.">>,
                <<"\\u0644\\u06a9\\u06be\\u0627\\u0631\\u06cc", "\\u0644\\u06a9\\u06be\\u0627\\u0631\\u06cc", "Agent noun", "\\u2014", "Same as Urdu.">>,
                <<"\\u0627\\u06d2", "\\u06c1\\u06d2", "Copula", "\\u0627\\u06d2 \\u2192 \\u06c1\\u06d2", "Dialectal copula.">>>>],
     \* line 120
     [key |-> <<1575, 1711, 1585, 32, 1608, 1746, 32, 1740, 1575, 32, 1604, 1576, 1575, 1587, 32, 1575, 1746, 32, 1662, 1729, 1585, 1740, 32, 1585, 1575, 1705, 1726, 1575, 1722>>,
      value |-> <<<<"\\u0627\\u06af\\u0631", "\\u0627\\u06af\\u0631", "Conditional Conjunction", "\\u2014", "Identical.">>,
                <<"\\u0648\\u06d2", "\\u0648\\u06c1", "Pronoun", "\\u0648\\u06d2 \\u2192 \\u0648\\u06c1", "Mewati form.">>,
                <<"\\u06cc\\u0627", "\\u06cc\\u06c1/\\u0627\\u0633", "Demonstrative", "\\u2192 \\u06cc\\u06c1/\\u0627\\u0633", "Dialectal.">>,
                <<"\\u0644\\u0628\\u0627\\u0633 \\u0627\\u06d2", "\\u0644\\u0628\\u0627\\u0633 \\u06a9\\u0648", "[Noun + Postposition]", "\\u0627\\u06d2 \\u2192 \\u06a9\\u0648", "Case marking difference.">>,
                <<"\\u067e\\u06c1\\u0631\\u06cc \\u0631\\u0627\\u06a9\\u06be\\u0627\\u06ba", "\\u067e\\u06c1\\u0646\\u062a\\u06d2 \\u06c1\\u06cc\\u06ba", "Verb compound", "\\u2192 \\u067e\\u06c1\\u0646\\u062a\\u06d2 \\u06c1\\u06cc\\u06ba", "Aspectual equivalence.">>>>],
     \* line 127
     [key |-> <<1711, 1740, 1575, 1606, 1740, 32, 1575, 1608, 1585, 32, 1578, 1593, 1604, 1740, 1605, 32, 1705, 1575, 32, 1605, 1575, 1729, 1585, 32, 1604, 1608, 1711, 1606, 32, 1705, 1608, 32, 1575, 1740, 32, 1605, 1575, 1606, 1606, 1608, 1575, 1746>>,
      value |-> <<<<"\\u06af\\u06cc\\u0627\\u0646\\u06cc", "\\u062f\\u0627\\u0646\\u0634\\u0648\\u0631", "Noun", "\\u2014", "Borrowed word.">>,
                <<"\\u0627\\u0648\\u0631", "\\u0627\\u0648\\u0631", "Conjunction", "\\u2014", "Same.">>,
                <<"\\u062a\\u0639\\u0644\\u06cc\\u0645 \\u06a9\\u0627 \\u0645\\u0627\\u06c1\\u0631", "\\u062a\\u0639\\u0644\\u06cc\\u0645 \\u06a9\\u06d2 \\u0645\\u0627\\u06c1\\u0631", "NP + Genitive", "\\u06a9\\u0627 \\u2192 \\u06a9\\u06d2", "Case shift.">>,
                <<"\\u0644\\u0648\\u06af\\u0646 \\u06a9\\u0648", "\\u0644\\u0648\\u06af\\u0648\\u06ba \\u06a9\\u0648", "Plural Oblique + Dative", "\\u0646 \\u2192 \\u0648\\u06ba", "Plural form.">>,
                <<"\\u0627\\u06cc", "\\u06cc\\u06c1", "Demonstrative", "\\u0627\\u06cc \\u2192 \\u06cc\\u06c1", "Variant.">>,
                <<"\\u0645\\u0627\\u0646\\u0646\\u0648\\u0627\\u06d2", "\\u0645\\u0627\\u0646\\u0646\\u0627 \\u06c1\\u06d2", "Root + Inf + Aux", "\\u2192 \\u0645\\u0627\\u0646\\u0646\\u0627 \\u06c1\\u06d2", "Fusion.">>>>],
     \* line 135
     [key |-> <<1605, 1740, 1585, 1746, 32, 1605, 1575, 1585, 1746, 32, 1576, 1740, 32, 1575, 1576, 32, 1578, 1705, 32, 1575, 1740, 1705, 32, 1575, 1670, 1726, 1606, 1576, 1608, 32, 1587, 1608, 1575, 1740, 32, 1575, 1746>>,
      value |-> <<<<"\\u0645\\u06cc\\u0631\\u06d2 \\u0645\\u0627\\u0631\\u06d2", "\\u0645\\u06cc\\u0631\\u06d2 \\u0644\\u06cc\\u06d2", "Possessive + Postposition", "\\u0645\\u0627\\u0631\\u06d2 \\u2192 \\u0644\\u06cc\\u06d2", "Dialectal.">>,
                <<"\\u0628\\u06cc", "\\u0628\\u06be\\u06cc", "Particle", "\\u2192 \\u0628\\u06be\\u06cc", "Colloquial.">>,
                <<"\\u0627\\u0628 \\u062a\\u06a9", "\\u0627\\u0628 \\u062a\\u06a9", "Temporal", "\\u2014", "Same.">>,
                <<"\\u0627\\u06cc\\u06a9", "\\u0627\\u06cc\\u06a9", "Numeral", "\\u2014", "Identical.">>,
                <<"\\u0627\\u0686\\u06be\\u0646\\u0628\\u0648 \\u0633\\u0648\\u0627\\u06cc", "\\u062d\\u06cc\\u0631\\u0627\\u0646\\u06af\\u06cc \\u0633\\u06cc", "Adj + Postposition", "\\u2192 \\u062d\\u06cc\\u0631\\u0627\\u0646\\u06af\\u06cc \\u0633\\u06cc", "Lexical difference.">>,
                <<"\\u0627\\u06d2", "\\u06c1\\u06d2", "Copula", "\\u2192 \\u06c1\\u06d2", "Variant.">>>>],
     \* line 143
     [key |-> <<1583, 1606, 1740, 1575, 32, 1570, 32, 1580, 1575, 32, 1585, 1740, 32, 1729, 1740>>,
      value |-> <<<<"\\u062f\\u0646\\u06cc\\u0627", "\\u062f\\u0646\\u06cc\\u0627", "Noun", "\\u2014", "Same.">>,
                <<"\\u0622", "\\u0622", "Aspectual Prefix", "\\u2014", "Identical.">>,
                <<"\\u062c\\u0627 \\u0631\\u06cc", "\\u062c\\u0627 \\u0631\\u06c1\\u06cc", "Verb Compound", "\\u0631\\u06cc \\u2192 \\u0631\\u06c1\\u06cc", "Phonemic reduction.">>,
                <<"\\u06c1\\u06cc", "\\u06c1\\u06d2", "Copula", "\\u06c1\\u06cc \\u2192 \\u06c1\\u06d2", "Variant.">>>>],
     \* line 149
     [key |-> <<1705, 1575, 32, 1729, 1605, 32, 1605, 1575, 1590, 1740, 32, 1575, 1746, 32, 1586, 1606, 1583, 1729, 32, 1585, 1705, 1726, 32, 1587, 1705, 1575, 1722>>,
      value |-> <<<<"\\u06a9\\u0627", "\\u06a9\\u06cc\\u0627", "Question particle", "\\u2192 \\u06a9\\u06cc\\u0627", "Interrogative.">>,
                <<"\\u06c1\\u0645", "\\u06c1\\u0645", "1PL Pronoun", "\\u2014", "Same.">>,
                <<"\\u0645\\u0627\\u0636\\u06cc \\u0627\\u06d2", "\\u0645\\u0627\\u0636\\u06cc \\u06a9\\u0648", "Noun + Dative", "\\u0627\\u06d2 \\u2192 \\u06a9\\u0648", "Postpositional variant.">>,
                <<"\\u0632\\u0646\\u062f\\u06c1", "\\u0632\\u0646\\u062f\\u06c1", "Adjective", "\\u2014", "Same.">>,
                <<"\\u0631\\u06a9\\u06be", "\\u0631\\u06a9\\u06be", "Verb Root", "\\u2014", "Same.">>,
                <<"\\u0633\\u06a9\\u0627\\u06ba", "\\u0633\\u06a9\\u062a\\u06d2 \\u06c1\\u06cc\\u06ba", "Modal Auxiliary", "\\u2192 \\u0633\\u06a9\\u062a\\u06d2 \\u06c1\\u06cc\\u06ba", "Plural auxiliary.">>>>],
     \* line 157
     [key |-> <<1705, 1729, 1575, 32, 1605, 1740, 1608, 32, 1585, 1608, 1587, 32, 1605, 1740, 1722, 32, 1576, 1575, 1608, 1604, 1575, 32, 1729, 1608, 32, 1711, 1575>>,
      value |-> <<<<"\\u06a9\\u06c1\\u0627", "\\u06a9\\u06cc\\u0627", "Interrogative", "\\u2192 \\u06a9\\u06cc\\u0627", "Variant.">>,
                <<"\\u0645\\u06cc\\u0648", "\\u0645\\u06cc\\u0648", "Ethnonym", "\\u2014", "Same.">>,
                <<"\\u0631\\u0648\\u0633 \\u0645\\u06cc\\u06ba", "\\u0631\\u0648\\u0633 \\u0645\\u06cc\\u06ba", "Noun + Locative", "\\u2014", "Same.">>,
                <<"\\u0628\\u0627\\u0648\\u0644\\u0627", "\\u067e\\u0627\\u06af\\u0644", "Adjective", "\\u2192 \\u067e\\u0627\\u06af\\u0644", "Equivalent meaning.">>,
                <<"\\u06c1\\u0648 \\u06af\\u0627", "\\u06c1\\u0648 \\u06af\\u06cc\\u0627", "Auxiliary", "\\u2192 \\u06c1\\u0648 \\u06af\\u06cc\\u0627", "Tense/aspect difference.">>>>],
     \* line 164
     [key |-> <<1705, 1729, 1575, 32, 1662, 1608, 1670, 1726, 1608, 32, 1580, 1575, 1574, 1740, 1711, 1608, 32, 1602, 1576, 1585, 32, 1605, 1740, 1722>>,
      value |-> <<<<"\\u06a9\\u06c1\\u0627", "\\u06a9\\u06cc\\u0627", "Interrogative", "\\u2192 \\u06a9\\u06cc\\u0627", "Variant.">>,
                <<"\\u067e\\u0648\\u0686\\u06be\\u0648", "\\u067e\\u0648\\u0686\\u06be\\u0627", "Verb root", "\\u2192 \\u067e\\u0648\\u0686\\u06be\\u0627", "Dialectal form.">>,
                <<"\\u062c\\u0627\\u0626\\u06cc\\u06af\\u0648", "\\u062c\\u0627\\u0626\\u06d2 \\u06af\\u0627", "Passive Future", "\\u2192 \\u062c\\u0627\\u0626\\u06d2 \\u06af\\u0627", "Future passive.">>,
                <<"\\u0642\\u0628\\u0631 \\u0645\\u06cc\\u06ba", "\\u0642\\u0628\\u0631 \\u0645\\u06cc\\u06ba", "Noun + Locative", "\\u2014", "Same.">>>>],
     \* line 170
     [key |-> <<1575, 1608, 1705, 1729, 1606, 32, 1580, 1575, 32, 1585, 1608, 32, 1575, 1746>>,
      value |-> <<<<"\\u0627\\u0648", "\\u0648\\u06c1", "Pronoun", "\\u0627\\u0648 \\u2192 \\u0648\\u06c1", "Variant.">>,
                <<"\\u06a9\\u06c1\\u0646", "\\u06a9\\u06c1\\u0627\\u06ba", "Interrogative Adverb", "\\u06a9\\u06c1\\u0646 \\u2192 \\u06a9\\u06c1\\u0627\\u06ba", "Dialectal shift.">>,
                <<"\\u062c\\u0627 \\u0631\\u0648", "\\u062c\\u0627 \\u0631\\u06c1\\u0627", "Verb compound", "\\u0631\\u0648 \\u2192 \\u0631\\u06c1\\u0627", "Progressive.">>,
                <<"\\u0627\\u06d2", "\\u06c1\\u06d2", "Copula", "\\u2192 \\u06c1\\u06d2", "Variant.">>>>],
     \* line 176
     [key |-> <<1578, 1740, 1606, 1746, 32, 1705, 1729, 1575, 32, 1705, 1726, 1575, 1740, 1608>>,
      value |-> <<<<"\\u062a\\u06cc\\u0646\\u06d2", "\\u062a\\u0645 \\u0646\\u06d2", "2SG + ERG", "\\u2192 \\u062a\\u0645 \\u0646\\u06d2", "Case marking.">>,
                <<"\\u06a9\\u06c1\\u0627", "\\u06a9\\u06cc\\u0627", "Interrogative", "\\u2192 \\u06a9\\u06cc\\u0627", "Variant.">>,
                <<"\\u06a9\\u06be\\u0627\\u06cc\\u0648", "\\u06a9\\u06be\\u0627\\u06cc\\u0627", "Verb (perfective)", "\\u06cc\\u0648 \\u2192 \\u06cc\\u0627", "Perfective change.">>>>],
     \* line 181
     [key |-> <<1729, 1605, 32, 1585, 1575, 1578, 32, 1705, 1576, 32, 1587, 1608, 1740, 1575, 32, 1729, 1575>>,
      value |-> <<<<"\\u06c1\\u0645", "\\u06c1\\u0645", "Pronoun", "\\u2014", "Same.">>,
                <<"\\u0631\\u0627\\u062a", "\\u0631\\u0627\\u062a", "Noun", "\\u2014", "Same.">>,
                <<"\\u06a9\\u0628", "\\u06a9\\u0628", "Interrogative", "\\u2014", "Same.">>,
                <<"\\u0633\\u0648\\u06cc\\u0627 \\u06c1\\u0627", "\\u0633\\u0648\\u0626\\u06d2 \\u062a\\u06be\\u06d2", "Verb + Aux", "\\u06c1\\u0627 \\u2192 \\u062a\\u06be\\u06d2", "Aux difference.">>>>],
     \* line 187
     [key |-> <<1575, 1740, 32, 1580, 1575, 1681, 1575, 1606, 32, 1705, 1740, 32, 1576, 1575, 1578, 32, 1575, 1740>>,
      value |-> <<<<"\\u0627\\u06cc", "\\u06cc\\u06c1", "Demonstrative", "\\u2192 \\u06cc\\u06c1", "Variant.">>,
                <<"\\u062c\\u0627\\u0691\\u0627\\u0646 \\u06a9\\u06cc", "\\u062c\\u0627\\u0691\\u0648\\u06ba \\u06a9\\u06cc", "Noun + Genitive", "\\u0627\\u0646 \\u2192 \\u0648\\u06ba", "Plural suffix.">>,
                <<"\\u0628\\u0627\\u062a", "\\u0628\\u0627\\u062a", "Noun", "\\u2014", "Same.">>,
                <<"\\u0627\\u06cc", "\\u06c1\\u06d2", "Copula", "\\u2192 \\u06c1\\u06d2", "Variant.">>>>],
     \* line 193
     [key |-> <<1575, 1608, 32, 1575, 1670, 1726, 1608, 32, 1570, 1583, 1605, 1740, 32, 1729, 1608>>,
      value |-> <<<<"\\u0627\\u0648", "\\u0648\\u06c1", "Pronoun", "\\u0627\\u0648 \\u2192 \\u0648\\u06c1", "Dialectal.">>,
                <<"\\u0627\\u0686\\u06be\\u0648", "\\u0627\\u0686\\u06be\\u0627", "Adjective", "\\u0627\\u0648 \\u2192 \\u0627\\u0627", "Phonological.">>,
                <<"\\u0622\\u062f\\u0645\\u06cc", "\\u0622\\u062f\\u0645\\u06cc", "Noun", "\\u2014", "Same.">>,
                <<"\\u06c1\\u0648", "\\u062a\\u06be\\u0627", "Copula", "\\u2192 \\u062a\\u06be\\u0627", "Tense difference.">>>>],
     \* line 199
     [key |-> <<1576, 1740, 1585, 1576, 1575, 1606, 1740, 32, 1576, 1681, 1740, 32, 1605, 1604, 1608, 1705, 32, 1729, 1740>>,
      value |-> <<<<"\\u0628\\u06cc\\u0631\\u0628\\u0627\\u0646\\u06cc", "\\u0639\\u0648\\u0631\\u062a", "Noun", "\\u2192 \\u0639\\u0648\\u0631\\u062a", "Different lexeme.">>,
                <<"\\u0628\\u0691\\u06cc", "\\u0628\\u06c1\\u062a", "Adverb", "\\u2192 \\u0628\\u06c1\\u062a", "Intensifier shift.">>,
                <<"\\u0645\\u0644\\u0648\\u06a9", "\\u062e\\u0648\\u0628\\u0635\\u0648\\u0631\\u062a", "Adjective", "\\u2192 \\u062e\\u0648\\u0628\\u0635\\u0648\\u0631\\u062a", "Semantic equivalent.">>,
                <<"\\u06c1\\u06cc", "\\u062a\\u06be\\u06cc", "Copula", "\\u2192 \\u062a\\u06be\\u06cc", "Past tense copula.">>>>],
     \* line 205
     [key |-> <<1576, 1608, 1681, 1726, 1740, 32, 1575, 1605, 1575, 1722, 32, 1606, 1746, 32, 1705, 1583, 1740, 32, 1705, 1575, 1574, 1740, 32, 1705, 1740, 32, 1576, 1585, 1575, 1574, 1740, 32, 1606, 1729, 32, 1705, 1585, 1740>>,
      value |-> <<<<"\\u0628\\u0648\\u0691\\u06be\\u06cc", "\\u0628\\u0648\\u0691\\u06be\\u06cc", "Adjective", "\\u2014", "Same.">>,
                <<"\\u0627\\u0645\\u0627\\u06ba", "\\u0645\\u0627\\u06ba", "Noun", "\\u2192 \\u0645\\u0627\\u06ba", "Dialectal variant.">>,
                <<"\\u0646\\u06d2", "\\u0646\\u06d2", "Ergative", "\\u2014", "Same.">>,
                <<"\\u06a9\\u062f\\u06cc", "\\u06a9\\u0628\\u06be\\u06cc", "Adverb", "\\u2192 \\u06a9\\u0628\\u06be\\u06cc", "Variant.">>,
                <<"\\u06a9\\u0627\\u0626\\u06cc \\u06a9\\u06cc", "\\u06a9\\u0633\\u06cc \\u06a9\\u06cc", "Pronoun + Poss", "\\u2192 \\u06a9\\u0633\\u06cc \\u06a9\\u06cc", "Lexical.">>,
                <<"\\u0628\\u0631\\u0627\\u0626\\u06cc", "\\u0628\\u0631\\u0627\\u0626\\u06cc", "Noun", "\\u2014", "Same.">>,
                <<"\\u0646\\u06c1 \\u06a9\\u0631\\u06cc", "\\u0646\\u06c1\\u06cc\\u06ba \\u06a9\\u06cc", "Neg + Verb", "\\u2192 \\u0646\\u06c1\\u06cc\\u06ba \\u06a9\\u06cc", "Negation.">>>>],
     \* line 214
     [key |-> <<1605, 1740, 1608, 1575, 1578, 1740, 32, 1586, 1576, 1575, 1606, 32, 1575, 1662, 1606, 1740, 32, 1576, 1602, 1575, 32, 1705, 1740, 32, 1580, 1606, 1711, 32, 1604, 1681, 1585, 1740, 32, 1575, 1746>>,
      value |-> <<<<"\\u0645\\u06cc\\u0648\\u0627\\u062a\\u06cc \\u0632\\u0628\\u0627\\u0646", "\\u0645\\u06cc\\u0648\\u0627\\u062a\\u06cc \\u0632\\u0628\\u0627\\u0646", "Proper noun phrase", "\\u2014", "Same.">>,
                <<"\\u0627\\u067e\\u0646\\u06cc", "\\u0627\\u067e\\u0646\\u06cc", "Possessive pronoun", "\\u2014", "Same.">>,
                <<"\\u0628\\u0642\\u0627 \\u06a9\\u06cc \\u062c\\u0646\\u06af", "\\u0628\\u0642\\u0627 \\u06a9\\u06cc \\u062c\\u0646\\u06af", "NP + Genitive", "\\u2014", "Same.">>,
                <<"\\u0644\\u0691\\u0631\\u06cc", "\\u0644\\u0691 \\u0631\\u06c1\\u06cc", "Verb Progressive", "\\u0631\\u06cc \\u2192 \\u0631\\u06c1\\u06cc", "Phonemic.">>,
                <<"\\u0627\\u06d2", "\\u06c1\\u06d2", "Copula", "\\u2192 \\u06c1\\u06d2", "Variant.">>>>],
     \* line 221
     [key |-> <<1576, 1586, 1585, 1711, 1606, 32, 1705, 1740, 32, 1576, 1729, 1578, 32, 1587, 1740, 32, 1587, 1606, 1578, 32, 1657, 1608, 1657, 1578, 1740, 32, 1583, 1705, 1726, 1575, 1574, 1740, 32, 1583, 1746, 32, 1585, 1740, 32, 1729, 1575, 1722>>,
      value |-> <<<<"\\u0628\\u0632\\u0631\\u06af\\u0646 \\u06a9\\u06cc", "\\u0628\\u0632\\u0631\\u06af\\u0648\\u06ba \\u06a9\\u06cc", "Plural + Gen", "\\u0646 \\u2192 \\u0648\\u06ba", "Plural ending.">>,
                <<"\\u0628\\u06c1\\u062a \\u0633\\u06cc", "\\u0628\\u06c1\\u062a \\u0633\\u06cc", "Quantifier", "\\u2014", "Same.">>,
                <<"\\u0633\\u0646\\u062a", "\\u0633\\u0646\\u062a", "Noun", "\\u2014", "Same.">>,
                <<"\\u0679\\u0648\\u0679\\u062a\\u06cc", "\\u0679\\u0648\\u0679\\u062a\\u06cc", "Verb progressive", "\\u2014", "Same.">>,
                <<"\\u062f\\u06a9\\u06be\\u0627\\u0626\\u06cc \\u062f\\u06d2", "\\u062f\\u06a9\\u06be\\u0627\\u0626\\u06cc \\u062f\\u06d2", "Light verb", "\\u2014", "Same.">>,
                <<"\\u0631\\u06cc \\u06c1\\u0627\\u06ba", "\\u0631\\u06c1\\u06cc \\u06c1\\u06cc\\u06ba", "Progressive + Copula", "\\u0631\\u06cc \\u06c1\\u0627\\u06ba \\u2192 \\u0631\\u06c1\\u06cc \\u06c1\\u06cc\\u06ba", "Dialectal plural.">>>>],
     \* line 229
     [key |-> <<1711, 1608, 1604, 32, 1605, 1657, 1608, 1604, 32, 1587, 1604, 1608, 1606, 1657, 1606, 32, 1587, 1608, 32, 1576, 1726, 1585, 32, 1608, 32, 1670, 1729, 1585, 1608>>,
      value |-> <<<<"\\u06af\\u0648\\u0644 \\u0645\\u0679\\u0648\\u0644", "\\u06af\\u0648\\u0644 \\u0645\\u0679\\u0648\\u0644", "Adjective", "\\u2014", "Same.">>,
                <<"\\u0633\\u0644\\u0648\\u0646\\u0679\\u0646", "\\u062c\\u06be\\u0631\\u06cc\\u0627\\u06ba", "Noun", "\\u2192 \\u062c\\u06be\\u0631\\u06cc\\u0627\\u06ba", "Lexical substitution.">>,
                <<"\\u0633\\u0648", "\\u0633\\u06d2", "Postposition", "\\u2192 \\u0633\\u06d2", "Case marker.">>,
                <<"\\u0628\\u06be\\u0631 \\u0648", "\\u0628\\u06be\\u0631\\u0627", "Verb participle", "\\u2192 \\u0628\\u06be\\u0631\\u0627", "Aspect.">>,
                <<"\\u0686\\u06c1\\u0631\\u0648", "\\u0686\\u06c1\\u0631\\u06c1", "Noun", "\\u2192 \\u0686\\u06c1\\u0631\\u06c1", "Dialectal.">>>>],
     \* line 236
     [key |-> <<1705, 1662, 1681, 1575, 32, 1705, 1740, 32, 1604, 1608, 1711, 1681, 1740>>,
      value |-> <<<<"\\u06a9\\u067e\\u0691\\u0627", "\\u06a9\\u067e\\u0691\\u0627", "Noun", "\\u2014", "Same.">>,
                <<"\\u06a9\\u06cc", "\\u06a9\\u0627", "Genitive", "\\u06a9\\u06cc \\u2192 \\u06a9\\u0627", "Gender shift.">>,
                <<"\\u0644\\u0648\\u06af\\u0691\\u06cc", "\\u062f\\u0648\\u067e\\u0679\\u06c1", "Noun", "\\u2192 \\u062f\\u0648\\u067e\\u0679\\u06c1", "Lexical.">>>>],
     \* line 241
     [key |-> <<1740, 1575, 32, 1705, 1575, 32, 1605, 1606, 1729, 32, 1587, 1608>>,
      value |-> <<<<"\\u06cc\\u0627", "\\u06cc\\u06c1", "Demonstrative", "\\u2192 \\u06cc\\u06c1", "Dialectal.">>,
                <<"\\u06a9\\u0627", "\\u06a9\\u0627", "Genitive", "\\u2014", "Same.">>,
                <<"\\u0645\\u0646\\u06c1 \\u0633\\u0648", "\\u0645\\u0646\\u06c1 \\u0633\\u06d2", "Noun + Postposition", "\\u0633\\u0648 \\u2192 \\u0633\\u06d2", "Postposition.">>>>]
  >>

\* SPACY_FEATURES: sentence -> rows (Word, Lemma, POS, Dependency, Explanation, Head).
SpacyLiteral ==
  <<
     \* line 250
     [key |-> <<1580, 1576, 32, 1729, 1605, 1575, 1585, 1740, 32, 1705, 1604, 1575, 1587, 32, 1604, 1711, 1746, 32, 1705, 1585, 1746, 32, 1575, 1740>>,
      value |-> <<<<"\\u062c\\u0628", "\\u062c\\u0628", "SCONJ", "mark", "Subordinating Conjunction (Temporal)", "\\u06a9\\u0631\\u06d2">>,
                <<"\\u06c1\\u0645\\u0627\\u0631\\u06cc", "\\u06c1\\u0645", "PRON", "nmod:poss", "Possessive Pronoun", "\\u06a9\\u0644\\u0627\\u0633">>,
                <<"\\u06a9\\u0644\\u0627\\u0633", "\\u06a9\\u0644\\u0627\\u0633", "NOUN", "nsubj", "Noun (subject of verb)", "\\u06a9\\u0631\\u06d2">>,
                <<"\\u0644\\u06af\\u06d2", "\\u0644\\u06af\\u0646\\u0627", "VERB", "aux", "Root Verb + Aspect + Aux", "\\u06a9\\u0631\\u06d2">>,
                <<"\\u06a9\\u0631\\u06d2", "\\u06a9\\u0631\\u0646\\u0627", "AUX", "root", "Habitual auxiliary verb", "\\u2014">>,
                <<"\\u0627\\u06cc", "\\u06c1\\u0648\\u0646\\u0627", "AUX", "cop", "Reduced Copula form of \\u062a\\u06be\\u06cc", "\\u2014">>>>],
     \* line 258
     [key |-> <<1705, 1729, 32, 1575, 1608, 32, 1705, 1578, 1606, 1608, 32, 1662, 1582, 1578, 1608, 32, 1604, 1705, 1726, 1575, 1585, 1740, 32, 1575, 1746>>,
      value |-> <<<<"\\u06a9\\u06c1", "\\u06a9\\u06c1", "SCONJ", "mark", "Subordinating Conjunction", "\\u0644\\u06a9\\u06be\\u0627\\u0631\\u06cc">>,
                <<"\\u0627\\u0648", "\\u0648\\u06c1", "PRON", "nsubj", "3rd Person Pronoun", "\\u0644\\u06a9\\u06be\\u0627\\u0631\\u06cc">>,
                <<"\\u06a9\\u062a\\u0646\\u0648", "\\u06a9\\u062a\\u0646\\u0627", "ADJ", "amod", "Interrogative adjective", "\\u067e\\u062e\\u062a\\u0648">>,
                <<"\\u067e\\u062e\\u062a\\u0648", "\\u0627\\u0686\\u06be\\u0627", "ADJ", "amod", "Quality adjective", "\\u0644\\u06a9\\u06be\\u0627\\u0631\\u06cc">>,
                <<"\\u0644\\u06a9\\u06be\\u0627\\u0631\\u06cc", "\\u0644\\u06a9\\u06be\\u0627\\u0631\\u06cc", "NOUN", "root", "Agent noun", "\\u2014">>,
                <<"\\u0627\\u06d2", "\\u06c1\\u06d2", "AUX", "cop", "Copula (3rd person singular)", "\\u0644\\u06a9\\u06be\\u0627\\u0631\\u06cc">>>>],
     \* line 266
     [key |-> <<1575, 1711, 1585, 32, 1608, 1746, 32, 1740, 1575, 32, 1604, 1576, 1575, 1587, 32, 1575, 1746, 32, 1662, 1729, 1585, 1740, 32, 1585, 1575, 1705, 1726, 1575, 1722>>,
      value |-> <<<<"\\u0627\\u06af\\u0631", "\\u0627\\u06af\\u0631", "SCONJ", "mark", "Conditional conjunction", "\\u0631\\u0627\\u06a9\\u06be\\u0627\\u06ba">>,
                <<"\\u0648\\u06d2", "\\u0648\\u06c1", "PRON", "nsubj", "3rd Person Pronoun", "\\u0631\\u0627\\u06a9\\u06be\\u0627\\u06ba">>,
                <<"\\u06cc\\u0627", "\\u06cc\\u06c1", "PRON", "det", "Demonstrative pronoun", "\\u0644\\u0628\\u0627\\u0633">>,
                <<"\\u0644\\u0628\\u0627\\u0633", "\\u0644\\u0628\\u0627\\u0633", "NOUN", "obj", "Noun", "\\u0631\\u0627\\u06a9\\u06be\\u0627\\u06ba">>,
                <<"\\u0627\\u06d2", "\\u06a9\\u0648", "ADP", "case", "Postposition marker", "\\u0644\\u0628\\u0627\\u0633">>,
                <<"\\u067e\\u06c1\\u0631\\u06cc", "\\u067e\\u06c1\\u0646\\u0646\\u0627", "VERB", "aux", "Root verb + aspect", "\\u0631\\u0627\\u06a9\\u06be\\u0627\\u06ba">>,
                <<"\\u0631\\u0627\\u06a9\\u06be\\u0627\\u06ba", "\\u0631\\u06a9\\u06be\\u0646\\u0627", "AUX", "root", "Light verb + copula", "\\u2014">>>>],
     \* line 275
     [key |-> <<1711, 1740, 1575, 1606, 1740, 32, 1575, 1608, 1585, 32, 1578, 1593, 1604, 1740, 1605, 32, 1705, 1575, 32, 1605, 1575, 1729, 1585, 32, 1604, 1608, 1711, 1606, 32, 1705, 1608, 32, 1575, 1740, 32, 1605, 1575, 1606, 1606, 1608, 1575, 1746>>,
      value |-> <<<<"\\u06af\\u06cc\\u0627\\u0646\\u06cc", "\\u062f\\u0627\\u0646\\u0634\\u0648\\u0631", "NOUN", "compound", "Noun (agent)", "\\u0645\\u0627\\u06c1\\u0631">>,
                <<"\\u0627\\u0648\\u0631", "\\u0627\\u0648\\u0631", "CCONJ", "cc", "Coordinating conjunction", "\\u06af\\u06cc\\u0627\\u0646\\u06cc">>,
                <<"\\u062a\\u0639\\u0644\\u06cc\\u0645", "\\u062a\\u0639\\u0644\\u06cc\\u0645", "NOUN", "compound", "Part of NP", "\\u0645\\u0627\\u06c1\\u0631">>,
                <<"\\u06a9\\u0627", "\\u06a9\\u0627", "ADP", "case", "Genitive postposition", "\\u062a\\u0639\\u0644\\u06cc\\u0645">>,
                <<"\\u0645\\u0627\\u06c1\\u0631", "\\u0645\\u0627\\u06c1\\u0631", "NOUN", "nsubj", "Expert noun", "\\u0645\\u0627\\u0646\\u0646\\u0648\\u0627\\u06d2">>,
                <<"\\u0644\\u0648\\u06af\\u0646", "\\u0644\\u0648\\u06af", "NOUN", "nmod", "Plural oblique", "\\u0645\\u0627\\u0646\\u0646\\u0648\\u0627\\u06d2">>,
                <<"\\u06a9\\u0648", "\\u06a9\\u0627", "ADP", "case", "Postposition", "\\u0644\\u0648\\u06af\\u0646">>,
                <<"\\u0627\\u06cc", "\\u06cc\\u06c1", "PRON", "nsubj", "Demonstrative pronoun", "\\u0645\\u0627\\u0646\\u0646\\u0648\\u0627\\u06d2">>,
                <<"\\u0645\\u0627\\u0646\\u0646\\u0648\\u0627\\u06d2", "\\u0645\\u0627\\u0646\\u0646\\u0627 \\u06c1\\u06d2", "VERB", "root", "Infinitive + Aux", "\\u2014">>,
                <<"\\u0627\\u06d2", "\\u06c1\\u06d2", "AUX", "cop", "Copula", "\\u0645\\u0627\\u0646\\u0646\\u0648\\u0627\\u06d2">>>>],
     \* line 287
     [key |-> <<1605, 1740, 1585, 1746, 32, 1605, 1575, 1585, 1746, 32, 1576, 1740, 32, 1575, 1576, 32, 1578, 1705, 32, 1575, 1740, 1705, 32, 1575, 1670, 1726, 1606, 1576, 1608, 32, 1587, 1608, 1575, 1740, 32, 1575, 1746>>,
      value |-> <<<<"\\u0645\\u06cc\\u0631\\u06d2", "\\u0645\\u06cc\\u0631\\u0627", "PRON", "nmod:poss", "Possessive pronoun", "\\u0645\\u0627\\u0631\\u06d2">>,
                <<"\\u0645\\u0627\\u0631\\u06d2", "\\u0644\\u06cc\\u06d2", "ADP", "case", "Postposition", "\\u0645\\u06cc\\u0631\\u06d2">>,
                <<"\\u0628\\u06cc", "\\u0628\\u06be\\u06cc", "PART", "advmod", "Focus/emphasis particle", "\\u0627\\u06d2">>,
                <<"\\u0627\\u0628 \\u062a\\u06a9", "\\u0627\\u0628 \\u062a\\u06a9", "ADV", "advmod", "Temporal phrase", "\\u0627\\u06d2">>,
                <<"\\u0627\\u06cc\\u06a9", "\\u0627\\u06cc\\u06a9", "NUM", "nummod", "Cardinal numeral", "\\u0633\\u0648\\u0627\\u06cc">>,
                <<"\\u0627\\u0686\\u06be\\u0646\\u0628\\u0648", "\\u0639\\u062c\\u06cc\\u0628", "ADJ", "amod", "Adjective", "\\u0633\\u0648\\u0627\\u06cc">>,
                <<"\\u0633\\u0648\\u0627\\u06cc", "\\u0633\\u06cc", "ADP", "obl", "Postposition", "\\u0627\\u06d2">>,
                <<"\\u0627\\u06d2", "\\u06c1\\u06d2", "AUX", "root", "Copula (present tense)", "\\u2014">>>>],
     \* line 297
     [key |-> <<1583, 1606, 1740, 1575, 32, 1570, 32, 1580, 1575, 32, 1585, 1740, 32, 1729, 1740>>,
      value |-> <<<<"\\u062f\\u0646\\u06cc\\u0627", "\\u062f\\u0646\\u06cc\\u0627", "NOUN", "nsubj", "Noun (subject)", "\\u062c\\u0627\\u0631\\u06cc">>,
                <<"\\u0622", "\\u0622\\u0646\\u0627", "PART", "aux", "Aspectual prefix", "\\u062c\\u0627\\u0631\\u06cc">>,
                <<"\\u062c\\u0627\\u0631\\u06cc", "\\u062c\\u0627 \\u0631\\u06c1\\u06cc", "VERB", "root", "Verb + progressive", "\\u2014">>,
                <<"\\u06c1\\u06cc", "\\u06c1\\u06d2", "AUX", "cop", "Copula", "\\u062c\\u0627\\u0631\\u06cc">>>>],
     \* line 303
     [key |-> <<1705, 1575, 32, 1729, 1605, 32, 1605, 1575, 1590, 1740, 32, 1575, 1746, 32, 1586, 1606, 1583, 1729, 32, 1585, 1705, 1726, 32, 1587, 1705, 1575, 1722>>,
      value |-> <<<<"\\u06a9\\u0627", "\\u06a9\\u06cc\\u0627", "PART", "aux", "Interrogative particle", "\\u0633\\u06a9\\u0627\\u06ba">>,
                <<"\\u06c1\\u0645", "\\u06c1\\u0645", "PRON", "nsubj", "1PL pronoun", "\\u0633\\u06a9\\u0627\\u06ba">>,
                <<"\\u0645\\u0627\\u0636\\u06cc", "\\u0645\\u0627\\u0636\\u06cc", "NOUN", "obj", "Noun (indirect object)", "\\u0631\\u06a9\\u06be">>,
                <<"\\u0627\\u06d2", "\\u06a9\\u0648", "ADP", "case", "Postposition", "\\u0645\\u0627\\u0636\\u06cc">>,
                <<"\\u0632\\u0646\\u062f\\u06c1", "\\u0632\\u0646\\u062f\\u06c1", "ADJ", "amod", "Adjective (state)", "\\u0631\\u06a9\\u06be">>,
                <<"\\u0632\\u0646\\u062f\\u06c1 \\u0631\\u06a9\\u06be", "\\u0632\\u0646\\u062f\\u06c1 \\u0631\\u06a9\\u06be", "VERB", "xcomp", "Compound verb", "\\u0633\\u06a9\\u0627\\u06ba">>,
                <<"\\u0631\\u06a9\\u06be", "\\u0631\\u06a9\\u06be\\u062a\\u06d2", "VERB", "compound", "Root verb", "\\u0633\\u06a9\\u0627\\u06ba">>,
                <<"\\u0633\\u06a9\\u0627\\u06ba", "\\u0633\\u06a9\\u062a\\u06d2 \\u06c1\\u06cc\\u06ba", "AUX", "root", "Modal auxiliary", "\\u2014">>>>],
     \* line 313
     [key |-> <<1705, 1729, 1575, 32, 1605, 1740, 1608, 32, 1585, 1608, 1587, 32, 1605, 1740, 1722, 32, 1576, 1575, 1608, 1604, 1575, 32, 1729, 1608, 32, 1711, 1575>>,
      value |-> <<<<"\\u06a9\\u06c1\\u0627", "\\u06a9\\u06cc\\u0627", "PART", "aux", "Interrogative particle", "\\u0628\\u0627\\u0648\\u0644\\u0627">>,
                <<"\\u0645\\u06cc\\u0648", "\\u0645\\u06cc\\u0648", "NOUN", "nsubj", "Ethnonym/proper noun", "\\u0628\\u0627\\u0648\\u0644\\u0627">>,
                <<"\\u0631\\u0648\\u0633 \\u0645\\u06cc\\u06ba", "\\u0631\\u0648\\u0633 \\u0645\\u06cc\\u06ba", "PROPN", "obl", "Proper noun locative", "\\u0628\\u0627\\u0648\\u0644\\u0627">>,
                <<"\\u0628\\u0627\\u0648\\u0644\\u0627", "\\u067e\\u0627\\u06af\\u0644", "ADJ", "amod", "Adjective", "\\u0645\\u06cc\\u0648">>,
                <<"\\u06c1\\u0648 \\u06af\\u0627", "\\u06c1\\u0648 \\u06af\\u06cc\\u0627", "AUX", "root", "Auxiliary tense/aspect", "\\u2014">>>>],
     \* line 320
     [key |-> <<1705, 1729, 1575, 32, 1662, 1608, 1670, 1726, 1608, 32, 1580, 1575, 1574, 1740, 1711, 1608, 32, 1602, 1576, 1585, 32, 1605, 1740, 1722>>,
      value |-> <<<<"\\u06a9\\u06c1\\u0627", "\\u06a9\\u06cc\\u0627", "PART", "aux", "Interrogative particle", "\\u067e\\u0648\\u0686\\u06be\\u0648">>,
                <<"\\u067e\\u0648\\u0686\\u06be\\u0648", "\\u067e\\u0648\\u0686\\u06be\\u0627", "VERB", "root", "Imperative verb", "\\u2014">>,
                <<"\\u062c\\u0627\\u0626\\u06cc\\u06af\\u0648", "\\u062c\\u0627\\u0626\\u06d2 \\u06af\\u0627", "VERB", "conj", "Future passive verb phrase", "\\u067e\\u0648\\u0686\\u06be\\u0648">>,
                <<"\\u0642\\u0628\\u0631 \\u0645\\u06cc\\u06ba", "\\u0642\\u0628\\u0631 \\u0645\\u06cc\\u06ba", "NOUN", "obl", "Locative noun", "\\u062c\\u0627\\u0626\\u06cc\\u06af\\u0648">>>>],
     \* line 326
     [key |-> <<1575, 1608, 1705, 1729, 1606, 32, 1580, 1575, 32, 1585, 1608, 32, 1575, 1746>>,
      value |-> <<<<"\\u0627\\u0648", "\\u0648\\u06c1", "PRON", "nsubj", "3rd person pronoun", "\\u062c\\u0627 \\u0631\\u0648">>,
                <<"\\u06a9\\u06c1\\u0646", "\\u06a9\\u06c1\\u0627\\u06ba", "ADV", "advmod", "Interrogative locative", "\\u062c\\u0627 \\u0631\\u0648">>,
                <<"\\u062c\\u0627 \\u0631\\u0648", "\\u062c\\u0627 \\u0631\\u06c1\\u0627", "VERB", "root", "Verb compound: progressive", "\\u2014">>,
                <<"\\u0627\\u06d2", "\\u06c1\\u06d2", "AUX", "aux", "Copula", "\\u062c\\u0627 \\u0631\\u0648">>>>],
     \* line 332
     [key |-> <<1578, 1740, 1606, 1746, 32, 1705, 1729, 1575, 32, 1705, 1726, 1575, 1740, 1608>>,
      value |-> <<<<"\\u062a\\u06cc\\u0646\\u06d2", "\\u062a\\u0645 \\u0646\\u06d2", "PRON", "nsubj", "2SG pronoun + ergative", "\\u06a9\\u06be\\u0627\\u06cc\\u0648">>,
                <<"\\u06a9\\u06c1\\u0627", "\\u06a9\\u06cc\\u0627", "INTJ", "obj", "Interrogative pronoun", "\\u06a9\\u06be\\u0627\\u06cc\\u0648">>,
                <<"\\u06a9\\u06be\\u0627\\u06cc\\u0648", "\\u06a9\\u06be\\u0627\\u06cc\\u0627", "VERB", "root", "Perfective verb", "\\u2014">>>>],
     \* line 337
     [key |-> <<1729, 1605, 32, 1585, 1575, 1578, 32, 1705, 1576, 32, 1587, 1608, 1740, 1575, 32, 1729, 1575>>,
      value |-> <<<<"\\u06c1\\u0645", "\\u06c1\\u0645", "PRON", "nsubj", "1PL pronoun", "\\u0633\\u0648\\u06cc\\u0627 \\u06c1\\u0627">>,
                <<"\\u0631\\u0627\\u062a", "\\u0631\\u0627\\u062a", "NOUN", "nmod", "Temporal noun", "\\u0633\\u0648\\u06cc\\u0627 \\u06c1\\u0627">>,
                <<"\\u06a9\\u0628", "\\u06a9\\u0628", "ADV", "advmod", "Interrogative adverb", "\\u0633\\u0648\\u06cc\\u0627 \\u06c1\\u0627">>,
                <<"\\u0633\\u0648\\u06cc\\u0627 \\u06c1\\u0627", "\\u0633\\u0648\\u0626\\u06d2 \\u062a\\u06be\\u06d2", "VERB", "root", "Compound verb (past perfective)", "\\u2014">>>>],
     \* line 343
     [key |-> <<1575, 1740, 32, 1580, 1575, 1681, 1575, 1606, 32, 1705, 1740, 32, 1576, 1575, 1578, 32, 1575, 1740>>,
      value |-> <<<<"\\u0627\\u06cc", "\\u06cc\\u06c1", "PRON", "nsubj", "Demonstrative pronoun", "\\u0628\\u0627\\u062a">>,
                <<"\\u062c\\u0627\\u0691\\u0627\\u0646 \\u06a9\\u06cc", "\\u062c\\u0627\\u0691\\u0648\\u06ba \\u06a9\\u06cc", "NOUN", "nmod", "Plural/Genitive noun", "\\u0628\\u0627\\u062a">>,
                <<"\\u0628\\u0627\\u062a", "\\u0628\\u0627\\u062a", "NOUN", "root", "Common noun", "\\u2014">>,
                <<"\\u0627\\u06cc", "\\u06c1\\u06d2", "AUX", "cop", "Copula", "\\u0628\\u0627\\u062a">>>>],
     \* line 349
     [key |-> <<1575, 1608, 32, 1575, 1670, 1726, 1608, 32, 1570, 1583, 1605, 1740, 32, 1729, 1608>>,
      value |-> <<<<"\\u0627\\u0648", "\\u0648\\u06c1", "PRON", "nsubj", "3rd person pronoun", "\\u0622\\u062f\\u0645\\u06cc">>,
                <<"\\u0627\\u0686\\u06be\\u0648", "\\u0627\\u0686\\u06be\\u0627", "ADJ", "amod", "Adjective", "\\u0622\\u062f\\u0645\\u06cc">>,
                <<"\\u0622\\u062f\\u0645\\u06cc", "\\u0622\\u062f\\u0645\\u06cc", "NOUN", "root", "Common noun", "\\u2014">>,
                <<"\\u06c1\\u0648", "\\u062a\\u06be\\u0627", "AUX", "cop", "Past copula", "\\u0622\\u062f\\u0645\\u06cc">>>>],
     \* line 355
     [key |-> <<1576, 1740, 1585, 1576, 1575, 1606, 1740, 32, 1576, 1681, 1740, 32, 1605, 1604, 1608, 1705, 32, 1729, 1740>>,
      value |-> <<<<"\\u0628\\u06cc\\u0631\\u0628\\u0627\\u0646\\u06cc", "\\u0639\\u0648\\u0631\\u062a", "NOUN", "nsubj", "Noun (feminine)", "\\u0645\\u0644\\u0648\\u06a9">>,
                <<"\\u0628\\u0691\\u06cc", "\\u0628\\u06c1\\u062a", "ADV", "advmod", "Intensifier/adverb", "\\u0645\\u0644\\u0648\\u06a9">>,
                <<"\\u0645\\u0644\\u0648\\u06a9", "\\u062e\\u0648\\u0628\\u0635\\u0648\\u0631\\u062a", "ADJ", "amod", "Adjective", "\\u0628\\u06cc\\u0631\\u0628\\u0627\\u0646\\u06cc">>,
                <<"\\u06c1\\u06cc", "\\u062a\\u06be\\u06cc", "AUX", "cop", "Past copula", "\\u0645\\u0644\\u0648\\u06a9">>>>],
     \* line 361
     [key |-> <<1576, 1608, 1681, 1726, 1740, 32, 1575, 1605, 1575, 1722, 32, 1606, 1746, 32, 1705, 1583, 1740, 32, 1705, 1575, 1574, 1740, 32, 1705, 1740, 32, 1576, 1585, 1575, 1574, 1740, 32, 1606, 1729, 32, 1705, 1585, 1740>>,
      value |-> <<<<"\\u0628\\u0648\\u0691\\u06be\\u06cc", "\\u0628\\u0648\\u0691\\u06be\\u06cc", "ADJ", "amod", "Adjective", "\\u0627\\u0645\\u0627\\u06ba">>,
                <<"\\u0627\\u0645\\u0627\\u06ba", "\\u0645\\u0627\\u06ba", "NOUN", "nsubj", "Kinship noun", "\\u06a9\\u0631\\u06cc">>,
                <<"\\u0646\\u06d2", "\\u0646\\u06d2", "ADP", "case", "Ergative marker", "\\u0627\\u0645\\u0627\\u06ba">>,
                <<"\\u06a9\\u062f\\u06cc", "\\u06a9\\u0628\\u06be\\u06cc", "ADV", "advmod", "Temporal adverb", "\\u06a9\\u0631\\u06cc">>,
                <<"\\u06a9\\u0627\\u0626\\u06cc \\u06a9\\u06cc", "\\u06a9\\u0633\\u06cc \\u06a9\\u06cc", "PRON", "nmod:poss", "Possessive pronoun", "\\u0628\\u0631\\u0627\\u0626\\u06cc">>,
                <<"\\u0628\\u0631\\u0627\\u0626\\u06cc", "\\u0628\\u0631\\u0627\\u0626\\u06cc", "NOUN", "obj", "Abstract noun", "\\u06a9\\u0631\\u06cc">>,
                <<"\\u0646\\u06c1 \\u06a9\\u0631\\u06cc", "\\u0646\\u06c1\\u06cc\\u06ba \\u06a9\\u06cc", "VERB", "ROOT", "Neg + Verb", "\\u2014">>>>],
     \* line 370
     [key |-> <<1605, 1740, 1608, 1575, 1578, 1740, 32, 1586, 1576, 1575, 1606, 32, 1575, 1662, 1606, 1740, 32, 1576, 1602, 1575, 32, 1705, 1740, 32, 1580, 1606, 1711, 32, 1604, 1681, 1585, 1740, 32, 1575, 1746>>,
      value |-> <<<<"\\u0645\\u06cc\\u0648\\u0627\\u062a\\u06cc \\u0632\\u0628\\u0627\\u0646", "\\u0645\\u06cc\\u0648\\u0627\\u062a\\u06cc \\u0632\\u0628\\u0627\\u0646", "PROPN", "compound", "Proper noun", "\\u0632\\u0628\\u0627\\u0646">>,
                <<"\\u0627\\u067e\\u0646\\u06cc", "\\u0627\\u067e\\u0646\\u06cc", "PRON", "poss", "Reflexive possessive", "\\u0628\\u0642\\u0627">>,
                <<"\\u0628\\u0642\\u0627 \\u06a9\\u06cc \\u062c\\u0646\\u06af", "\\u0628\\u0642\\u0627 \\u06a9\\u06cc \\u062c\\u0646\\u06af", "NOUN", "nmod", "Abstract noun", "\\u0644\\u0691\\u0631\\u06cc">>,
                <<"\\u0644\\u0691\\u0631\\u06cc", "\\u0644\\u0691 \\u0631\\u06c1\\u06cc", "VERB", "root", "Verb + progressive participle", "\\u2014">>,
                <<"\\u0627\\u06d2", "\\u06c1\\u06d2", "AUX", "cop", "Copula", "\\u0644\\u0691\\u0631\\u06cc">>>>],
     \* line 377
     [key |-> <<1576, 1586, 1585, 1711, 1606, 32, 1705, 1740, 32, 1576, 1729, 1578, 32, 1587, 1740, 32, 1587, 1606, 1578, 32, 1657, 1608, 1657, 1578, 1740, 32, 1583, 1705, 1726, 1575, 1574, 1740, 32, 1583, 1746, 32, 1585, 1740, 32, 1729, 1575, 1722>>,
      value |-> <<<<"\\u0628\\u0632\\u0631\\u06af\\u0646 \\u06a9\\u06cc", "\\u0628\\u0632\\u0631\\u06af\\u0648\\u06ba \\u06a9\\u06cc", "NOUN", "nmod", "Plural + Genitive", "\\u0633\\u0646\\u062a">>,
                <<"\\u0628\\u06c1\\u062a \\u0633\\u06cc", "\\u0628\\u06c1\\u062a \\u0633\\u06cc", "ADJ", "amod", "Quantifier", "\\u0633\\u0646\\u062a">>,
                <<"\\u0633\\u0646\\u062a", "\\u0633\\u0646\\u062a", "NOUN", "nsubj", "Noun", "\\u0679\\u0648\\u0679\\u062a\\u06cc">>,
                <<"\\u0679\\u0648\\u0679\\u062a\\u06cc", "\\u0679\\u0648\\u0679\\u062a\\u06cc", "VERB", "acl", "Verb progressive", "\\u0633\\u0646\\u062a">>,
                <<"\\u062f\\u06a9\\u06be\\u0627\\u0626\\u06cc \\u062f\\u06d2", "\\u062f\\u06a9\\u06be\\u0627\\u0626\\u06cc \\u062f\\u06d2", "VERB", "xcomp", "Light verb", "\\u0679\\u0648\\u0679\\u062a\\u06cc">>,
                <<"\\u0631\\u06cc \\u06c1\\u0627\\u06ba", "\\u0631\\u06c1\\u06cc \\u06c1\\u06cc\\u06ba", "AUX", "aux", "Progressive + Copula", "\\u062f\\u06a9\\u06be\\u0627\\u0626\\u06cc \\u062f\\u06d2">>>>],
     \* line 385
     [key |-> <<1711, 1608, 1604, 32, 1605, 1657, 1608, 1604, 32, 1587, 1604, 1608, 1606, 1657, 1606, 32, 1587, 1608, 32, 1576, 1726, 1585, 32, 1608, 32, 1670, 1729, 1585, 1608>>,
      value |-> <<<<"\\u06af\\u0648\\u0644 \\u0645\\u0679\\u0648\\u0644", "\\u06af\\u0648\\u0644 \\u0645\\u0679\\u0648\\u0644", "ADJ", "amod", "Adjective", "\\u0686\\u06c1\\u0631\\u0648">>,
                <<"\\u0633\\u0644\\u0648\\u0646\\u0679\\u0646", "\\u062c\\u06be\\u0631\\u06cc\\u0627\\u06ba", "NOUN", "amod", "Lexical substitution", "\\u0686\\u06c1\\u0631\\u0648">>,
                <<"\\u0633\\u0648 \\u0628\\u06be\\u0631", "\\u0628\\u06be\\u0631\\u0627", "VERB", "amod", "Perfective participle", "\\u0686\\u06c1\\u0631\\u0648">>,
                <<"\\u0648", "\\u06c1\\u0648\\u0627", "AUX", "aux", "Aux/Copula", "\\u0633\\u0648 \\u0628\\u06be\\u0631">>,
                <<"\\u0686\\u06c1\\u0631\\u0648", "\\u0686\\u06c1\\u0631\\u06c1", "NOUN", "root", "Head noun", "\\u2014">>>>],
     \* line 392
     [key |-> <<1705, 1662, 1681, 1575, 32, 1705, 1740, 32, 1604, 1608, 1711, 1681, 1740>>,
      value |-> <<<<"\\u06a9\\u067e\\u0691\\u0627", "\\u06a9\\u067e\\u0691\\u0627", "NOUN", "nmod", "Noun", "\\u0644\\u0648\\u06af\\u0691\\u06cc">>,
                <<"\\u06a9\\u06cc", "\\u06a9\\u0627", "ADP", "case", "Genitive postposition", "\\u06a9\\u067e\\u0691\\u0627">>,
                <<"\\u0644\\u0648\\u06af\\u0691\\u06cc", "\\u062f\\u0648\\u067e\\u0679\\u06c1", "NOUN", "root", "Regional equivalent", "\\u2014">>>>],
     \* line 397
     [key |-> <<1740, 1575, 32, 1705, 1575, 32, 1605, 1606, 1729, 32, 1587, 1608>>,
      value |-> <<<<"\\u06cc\\u0627", "\\u06cc\\u06c1", "PRON", "nmod", "Demonstrative pronoun", "\\u0645\\u0646\\u06c1">>,
                <<"\\u06a9\\u0627", "\\u06a9\\u0627", "ADP", "case", "Possessive postposition", "\\u06cc\\u0627">>,
                <<"\\u0645\\u0646\\u06c1 \\u0633\\u0648", "\\u0645\\u0646\\u06c1 \\u0633\\u06d2", "NOUN", "obl", "Noun + Postposition", "\\u0633\\u0648">>>>]
  >>

\* LEIPZIG_ENTRIES: sentence -> gloss entry (urdu, english, words).
LeipzigLiteral ==
  <<
     \* line 406
     [key |-> <<1580, 1576, 32, 1729, 1605, 1575, 1585, 1740, 32, 1705, 1604, 1575, 1587, 32, 1604, 1711, 1746, 32, 1705, 1585, 1746, 32, 1575, 1740, 1748>>,
      value |-> [urdu |-> "\\u062c\\u0628 \\u06c1\\u0645\\u0627\\u0631\\u06cc \\u06a9\\u0644\\u0627\\u0633 \\u0644\\u06af\\u062a\\u06cc \\u062a\\u06be\\u06cc\\u06d4", english |-> "When our class used to take place.",
                words |-> <<<<"\\u062c\\u0628", "SCONJ", "When">>,
                <<"\\u06c1\\u0645\\u0627\\u0631\\u06cc", "1SG.POSS", "Our">>,
                <<"\\u06a9\\u0644\\u0627\\u0633", "N", "Class">>,
                <<"\\u0644\\u06af\\u06d2", "V-root+ASP", "Root verb + aspect suffix">>,
                <<"\\u06a9\\u0631\\u06d2", "V-root+HAB", "Habitual auxiliary">>,
                <<"\\u0627\\u06cc", "COP.PST.FEM", "Copula (past feminine)">>>>]],
     \* line 418
     [key |-> <<1705, 1729, 32, 1575, 1608, 32, 1705, 1578, 1606, 1608, 32, 1662, 1582, 1578, 1608, 32, 1604, 1705, 1726, 1575, 1585, 32, 1740, 32, 1575, 1746, 1748>>,
      value |-> [urdu |-> "\\u06a9\\u06c1 \\u0648\\u06c1 \\u06a9\\u062a\\u0646\\u0627 \\u0627\\u0686\\u06be\\u0627 \\u0644\\u06a9\\u06be\\u0627\\u0631\\u06cc \\u06c1\\u06d2\\u06d4", english |-> "That he is such a good writer.",
                words |-> <<<<"\\u06a9\\u06c1", "SCONJ", "That">>,
                <<"\\u0627\\u0648", "PRON.3SG", "He/She">>,
                <<"\\u06a9\\u062a\\u0646\\u0648 \\u067e\\u062e\\u062a\\u0648", "ADJ", "Good">>,
                <<"\\u0644\\u06a9\\u06be\\u0627\\u0631\\u06cc", "N-AGENT-NOM", "Writer">>,
                <<"\\u0627\\u06d2", "COP.PRES.3SG", "Is">>>>]],
     \* line 429
     [key |-> <<1575, 1711, 1585, 32, 1608, 1746, 1740, 1575, 32, 1604, 1576, 1575, 1587, 32, 1575, 1746, 32, 1662, 1729, 1585, 1740, 32, 1585, 1575, 1705, 1726, 1575, 1722, 1748>>,
      value |-> [urdu |-> "\\u0627\\u06af\\u0631 \\u0648\\u06c1 \\u0644\\u0628\\u0627\\u0633 \\u06a9\\u0648 \\u067e\\u06c1\\u0646\\u062a\\u06d2 \\u06c1\\u06cc\\u06ba\\u06d4", english |-> "If he wears those clothes.",
                words |-> <<<<"\\u0627\\u06af\\u0631", "SCONJ", "If">>,
                <<"\\u0648\\u06d2", "PRON.3SG", "He/She">>,
                <<"\\u06cc\\u0627", "DEM", "That">>,
                <<"\\u0644\\u0628\\u0627\\u0633 \\u0627\\u06d2", "N+DAT", "Clothes (dative)">>,
                <<"\\u067e\\u06c1\\u0631\\u06cc \\u0631\\u0627\\u06a9\\u06be\\u0627\\u06ba", "V-root+ASP+HAB", "Wear (progressive+habitual)">>>>]],
     \* line 440
     [key |-> <<1711, 1740, 1575, 1606, 1740, 32, 1575, 1608, 1585, 32, 1578, 1593, 1604, 1740, 1605, 32, 1705, 1575, 32, 1605, 1575, 1729, 1585, 32, 1604, 1608, 1711, 1606, 32, 1705, 1608, 32, 1575, 1740, 32, 1605, 1575, 1606, 1606, 1608, 1575, 1746, 32, 1575, 1746, 1748>>,
      value |-> [urdu |-> "\\u06af\\u06cc\\u0627\\u0646\\u06cc \\u0627\\u0648\\u0631 \\u062a\\u0639\\u0644\\u06cc\\u0645 \\u06a9\\u06d2 \\u0645\\u0627\\u06c1\\u0631 \\u0644\\u0648\\u06af\\u0648\\u06ba \\u06a9\\u0648 \\u06cc\\u06c1 \\u0645\\u0627\\u0646\\u0646\\u0627 \\u06c1\\u06d2\\u06d4", english |-> "The people accept scholars and education experts.",
                words |-> <<<<"\\u06af\\u06cc\\u0627\\u0646\\u06cc", "N", "Scholar">>,
                <<"\\u0627\\u0648\\u0631", "CONJ", "And">>,
                <<"\\u062a\\u0639\\u0644\\u06cc\\u0645", "N", "Education">>,
                <<"\\u06a9\\u0627", "GEN", "Of">>,
                <<"\\u0645\\u0627\\u06c1\\u0631", "N", "Expert">>,
                <<"\\u0644\\u0648\\u06af\\u0646 \\u06a9\\u0648", "N-PL+DAT", "People (dative)">>,
                <<"\\u0627\\u06cc", "DEM", "This">>,
                <<"\\u0645\\u0627\\u0646\\u0646\\u0648\\u0627\\u06d2", "V-root+INF+AUX", "To accept">>,
                <<"\\u0627\\u06d2", "COP.PRES.3SG", "Is">>>>]],
     \* line 455
     [key |-> <<1605, 1740, 1585, 1746, 32, 1605, 1575, 1585, 1746, 32, 1576, 1740, 32, 1575, 1576, 32, 1578, 1705, 32, 1575, 1740, 1705, 32, 1575, 1670, 1726, 1606, 1576, 1608, 32, 1587, 1608, 1575, 1740, 32, 1575, 1746, 1748>>,
      value |-> [urdu |-> "\\u0645\\u06cc\\u0631\\u06d2 \\u0644\\u06cc\\u06d2 \\u0628\\u06be\\u06cc \\u0627\\u0628 \\u062a\\u06a9 \\u0627\\u06cc\\u06a9 \\u062d\\u06cc\\u0631\\u0627\\u0646\\u06af\\u06cc \\u0633\\u06cc \\u06c1\\u06d2\\u06d4", english |-> "Even for me until now, there is a strange feeling.",
                words |-> <<<<"\\u0645\\u06cc\\u0631\\u06d2 \\u0645\\u0627\\u0631\\u06d2", "1SG.POSS+POSTP", "For me">>,
                <<"\\u0628\\u06cc", "FOC-PARTICLE", "Also/even">>,
                <<"\\u0627\\u0628 \\u062a\\u06a9", "ADV", "Until now">>,
                <<"\\u0627\\u06cc\\u06a9", "NUM", "One">>,
                <<"\\u0627\\u0686\\u06be\\u0646\\u0628\\u0648 \\u0633\\u0648\\u0627\\u06cc", "ADJ+POSTP", "Strange like">>,
                <<"\\u0627\\u06d2", "COP.PRES.3SG", "Is">>>>]],
     \* line 467
     [key |-> <<1583, 1606, 1740, 1575, 32, 1570, 32, 1580, 1575, 32, 1585, 1740, 32, 1729, 1740, 1748>>,
      value |-> [urdu |-> "\\u062f\\u0646\\u06cc\\u0627 \\u0622 \\u062c\\u0627 \\u0631\\u06c1\\u06cc \\u06c1\\u06d2\\u06d4", english |-> "The world is coming and going.",
                words |-> <<<<"\\u062f\\u0646\\u06cc\\u0627", "N", "World">>,
                <<"\\u0622", "ASP-PREFIX", "Come">>,
                <<"\\u062c\\u0627", "V-ROOT", "Go">>,
                <<"\\u0631\\u06cc", "PROG", "Progressive">>,
                <<"\\u06c1\\u06cc", "COP.PRES.3SG", "Is">>>>]],
     \* line 478
     [key |-> <<1705, 1575, 32, 1729, 1605, 32, 1605, 1575, 1590, 1740, 32, 1575, 1746, 32, 1586, 1606, 1583, 1729, 32, 1585, 1705, 1726, 32, 1587, 1705, 1575, 1722, 1567>>,
      value |-> [urdu |-> "\\u06a9\\u06cc\\u0627 \\u06c1\\u0645 \\u0645\\u0627\\u0636\\u06cc \\u06a9\\u0648 \\u0632\\u0646\\u062f\\u06c1 \\u0631\\u06a9\\u06be \\u0633\\u06a9\\u062a\\u06d2 \\u06c1\\u06cc\\u06ba\\u061f", english |-> "Can we keep the past alive?",
                words |-> <<<<"\\u06a9\\u0627", "Q-PART", "Question">>,
                <<"\\u06c1\\u0645", "PRON.1PL", "We">>,
                <<"\\u0645\\u0627\\u0636\\u06cc \\u0627\\u06d2", "N+DAT", "Past (dative)">>,
                <<"\\u0632\\u0646\\u062f\\u06c1", "ADJ", "Alive">>,
                <<"\\u0631\\u06a9\\u06be", "V-ROOT", "Keep">>,
                <<"\\u0633\\u06a9\\u0627\\u06ba", "AUX-MOD.PL", "Can">>>>]],
     \* line 490
     [key |-> <<1705, 1729, 1575, 32, 1605, 1740, 1608, 32, 1585, 1608, 1587, 32, 1605, 1740, 1722, 32, 1576, 1575, 1608, 1604, 1575, 32, 1729, 1608, 32, 1711, 1575, 1567>>,
      value |-> [urdu |-> "\\u06a9\\u06cc\\u0627 \\u0645\\u06cc\\u0648\\u0627\\u062a\\u06cc \\u0631\\u0648\\u0633 \\u0645\\u06cc\\u06ba \\u067e\\u0627\\u06af\\u0644 \\u06c1\\u0648\\u06af\\u0626\\u06d2\\u061f", english |-> "Have the Miwatis gone crazy in Russia?",
                words |-> <<<<"\\u06a9\\u06c1\\u0627", "Q-PART", "Question">>,
                <<"\\u0645\\u06cc\\u0648", "N", "Mewati">>,
                <<"\\u0631\\u0648\\u0633", "PROPN", "Russia">>,
                <<"\\u0645\\u06cc\\u06ba", "LOC", "In">>,
                <<"\\u0628\\u0627\\u0648\\u0644\\u0627", "ADJ", "Crazy">>,
                <<"\\u06c1\\u0648 \\u06af\\u0627", "AUX.FUT.PL", "Will be">>>>]],
     \* line 502
     [key |-> <<1705, 1729, 1575, 32, 1662, 1608, 1670, 1726, 1608, 32, 1580, 1575, 1574, 1740, 1711, 1608, 32, 1602, 1576, 1585, 32, 1605, 1740, 1722, 1567>>,
      value |-> [urdu |-> "\\u06a9\\u06cc\\u0627 \\u067e\\u0648\\u0686\\u06be\\u0627 \\u062c\\u0627\\u0626\\u06d2 \\u06af\\u0627 \\u0642\\u0628\\u0631 \\u0645\\u06cc\\u06ba\\u061f", english |-> "Will it be asked in the grave?",
                words |-> <<<<"\\u06a9\\u06c1\\u0627", "Q-PART", "What">>,
                <<"\\u067e\\u0648\\u0686\\u06be\\u0648", "V-IMP", "Ask">>,
                <<"\\u062c\\u0627\\u0626\\u06cc\\u06af\\u0648", "V-FUT-PASS", "Will be asked">>,
                <<"\\u0642\\u0628\\u0631", "N", "Grave">>,
                <<"\\u0645\\u06cc\\u06ba", "LOC", "In">>>>]],
     \* line 513
     [key |-> <<1575, 1608, 32, 1705, 1729, 1606, 32, 1580, 1575, 32, 1585, 1608, 32, 1575, 1746, 1567>>,
      value |-> [urdu |-> "\\u0648\\u06c1 \\u06a9\\u06c1\\u0627\\u06ba \\u062c\\u0627 \\u0631\\u06c1\\u0627 \\u06c1\\u06d2\\u061f", english |-> "Where is he going?",
                words |-> <<<<"\\u0627\\u0648", "PRON.3SG", "He">>,
                <<"\\u06a9\\u06c1\\u0646", "ADV-LOC", "Where">>,
                <<"\\u062c\\u0627 \\u0631\\u0648", "V-ROOT+PROG", "Going">>,
                <<"\\u0627\\u06d2", "COP.PRES.3SG", "Is">>>>]],
     \* line 523
     [key |-> <<1578, 1740, 1606, 1746, 32, 1705, 1729, 1575, 32, 1705, 1726, 1575, 1740, 1608, 1567>>,
      value |-> [urdu |-> "\\u062a\\u0645 \\u0646\\u06d2 \\u06a9\\u06cc\\u0627 \\u06a9\\u06be\\u0627\\u06cc\\u0627\\u061f", english |-> "What did you eat?",
                words |-> <<<<"\\u062a\\u06cc\\u0646\\u06d2", "PRON.2SG+ERG", "You (ergative)">>,
                <<"\\u06a9\\u06c1\\u0627", "Q-PART", "What">>,
                <<"\\u06a9\\u06be\\u0627\\u06cc\\u0648", "V-PFV", "Ate">>>>]],
     \* line 532
     [key |-> <<1729, 1605, 32, 1585, 1575, 1578, 32, 1705, 1576, 32, 1587, 1608, 1740, 1575, 32, 1729, 1575, 1567>>,
      value |-> [urdu |-> "\\u06c1\\u0645 \\u0631\\u0627\\u062a \\u06a9\\u0628 \\u0633\\u0648\\u0626\\u06d2 \\u062a\\u06be\\u06d2\\u061f", english |-> "When did we sleep at night?",
                words |-> <<<<"\\u06c1\\u0645", "PRON.1PL", "We">>,
                <<"\\u0631\\u0627\\u062a", "N", "Night">>,
                <<"\\u06a9\\u0628", "ADV", "When">>,
                <<"\\u0633\\u0648\\u06cc\\u0627 \\u06c1\\u0627", "V-PFV+AUX", "Slept (past)">>>>]],
     \* line 542
     [key |-> <<1575, 1740, 32, 1580, 1575, 1681, 1575, 1606, 32, 1705, 1740, 32, 1576, 1575, 1578, 32, 1575, 1740, 1748>>,
      value |-> [urdu |-> "\\u06cc\\u06c1 \\u062c\\u0627\\u0691\\u0648\\u06ba \\u06a9\\u06cc \\u0628\\u0627\\u062a \\u06c1\\u06d2\\u06d4", english |-> "This is a matter of winters.",
                words |-> <<<<"\\u0627\\u06cc", "DEM", "This">>,
                <<"\\u062c\\u0627\\u0691\\u0627\\u0646 \\u06a9\\u06cc", "N-GEN", "Of winters">>,
                <<"\\u0628\\u0627\\u062a", "N", "Matter">>,
                <<"\\u0627\\u06cc", "COP.PRES", "Is">>>>]],
     \* line 552
     [key |-> <<1575, 1608, 32, 1575, 1670, 1726, 1608, 32, 1570, 1583, 1605, 1740, 32, 1729, 1608, 1748>>,
      value |-> [urdu |-> "\\u0648\\u06c1 \\u0627\\u0686\\u06be\\u0627 \\u0622\\u062f\\u0645\\u06cc \\u062a\\u06be\\u0627\\u06d4", english |-> "He was a good man.",
                words |-> <<<<"\\u0627\\u0648", "PRON.3SG", "He">>,
                <<"\\u0627\\u0686\\u06be\\u0648", "ADJ", "Good">>,
                <<"\\u0622\\u062f\\u0645\\u06cc", "N", "Man">>,
                <<"\\u06c1\\u0648", "COP.PST.MASC", "Was">>>>]],
     \* line 562
     [key |-> <<1576, 1740, 1585, 1576, 1575, 1606, 1740, 32, 1576, 1681, 1740, 32, 1605, 1604, 1608, 1705, 32, 1729, 1740, 1748>>,
      value |-> [urdu |-> "\\u0639\\u0648\\u0631\\u062a \\u0628\\u06c1\\u062a \\u062e\\u0648\\u0628\\u0635\\u0648\\u0631\\u062a \\u062a\\u06be\\u06cc\\u06d4", english |-> "The woman was very beautiful.",
                words |-> <<<<"\\u0628\\u06cc\\u0631\\u0628\\u0627\\u0646\\u06cc", "N", "Woman">>,
                <<"\\u0628\\u0691\\u06cc", "ADV", "Very">>,
                <<"\\u0645\\u0644\\u0648\\u06a9", "ADJ", "Beautiful">>,
                <<"\\u06c1\\u06cc", "COP.PST.FEM", "Was (fem.)">>>>]],
     \* line 572
     [key |-> <<1576, 1608, 1681, 1726, 1740, 32, 1575, 1605, 1575, 1722, 32, 1606, 1746, 32, 1705, 1583, 1740, 32, 1705, 1575, 1574, 1740, 32, 1705, 1740, 32, 1576, 1585, 1575, 1574, 1740, 32, 1606, 1729, 32, 1705, 1585, 1740, 1748>>,
      value |-> [urdu |-> "\\u0628\\u0648\\u0691\\u06be\\u06cc \\u0627\\u0645\\u0627\\u06ba \\u0646\\u06d2 \\u06a9\\u0628\\u06be\\u06cc \\u06a9\\u0633\\u06cc \\u06a9\\u06cc \\u0628\\u0631\\u0627\\u0626\\u06cc \\u0646\\u06c1\\u06cc\\u06ba \\u06a9\\u06cc\\u06d4", english |-> "The old mother never did anyone any harm.",
                words |-> <<<<"\\u0628\\u0648\\u0691\\u06be\\u06cc", "ADJ-FEM", "Old (fem.)">>,
                <<"\\u0627\\u0645\\u0627\\u06ba", "N", "Mother">>,
                <<"\\u0646\\u06d2", "ERG", "Ergative">>,
                <<"\\u06a9\\u062f\\u06cc", "ADV", "Ever">>,
                <<"\\u06a9\\u0627\\u0626\\u06cc \\u06a9\\u06cc", "PRON-POSS", "Someone\\u2019s">>,
                <<"\\u0628\\u0631\\u0627\\u0626\\u06cc", "N", "Evil">>,
                <<"\\u0646\\u06c1", "NEG", "Not">>,
                <<"\\u06a9\\u0631\\u06cc", "V-PST.FEM", "Did (fem.)">>>>]],
     \* line 586
     [key |-> <<1605, 1740, 1608, 1575, 1578, 1740, 32, 1586, 1576, 1575, 1606, 32, 1575, 1662, 1606, 1740, 32, 1576, 1602, 1575, 32, 1705, 1740, 32, 1580, 1606, 1711, 32, 1604, 1681, 1585, 1740, 32, 1575, 1746, 1748>>,
      value |-> [urdu |-> "\\u0645\\u06cc\\u0648\\u0627\\u062a\\u06cc \\u0632\\u0628\\u0627\\u0646 \\u0627\\u067e\\u0646\\u06cc \\u0628\\u0642\\u0627 \\u06a9\\u06cc \\u062c\\u0646\\u06af \\u0644\\u0691 \\u0631\\u06c1\\u06cc \\u06c1\\u06d2\\u06d4", english |-> "The Mewati language is fighting for its survival.",
                words |-> <<<<"\\u0645\\u06cc\\u0648\\u0627\\u062a\\u06cc", "N-PROPN", "Mewati">>,
                <<"\\u0632\\u0628\\u0627\\u0646", "N", "Language">>,
                <<"\\u0627\\u067e\\u0646\\u06cc", "3SG.POSS", "Its">>,
                <<"\\u0628\\u0642\\u0627", "N", "Survival">>,
                <<"\\u06a9\\u06cc", "GEN", "Of">>,
                <<"\\u062c\\u0646\\u06af", "N", "War">>,
                <<"\\u0644\\u0691\\u0631\\u06cc", "V-root+PROG", "Fighting">>,
                <<"\\u0627\\u06d2", "COP.PRES", "Is">>>>]],
     \* line 600
     [key |-> <<1576, 1586, 1585, 1711, 1606, 32, 1705, 1740, 32, 1576, 1729, 1578, 32, 1587, 1740, 32, 1587, 1606, 1578, 32, 1657, 1608, 1657, 1578, 1740, 32, 1583, 1705, 1726, 1575, 1574, 1740, 32, 1583, 1746, 32, 1585, 1740, 32, 1729, 1575, 1722, 1748>>,
      value |-> [urdu |-> "\\u0628\\u0632\\u0631\\u06af\\u0648\\u06ba \\u06a9\\u06cc \\u0628\\u06c1\\u062a \\u0633\\u06cc \\u0633\\u0646\\u062a \\u0628\\u06a9\\u06be\\u0631\\u062a\\u06cc \\u062f\\u06a9\\u06be\\u0627\\u0626\\u06cc \\u062f\\u06d2 \\u0631\\u06c1\\u06cc \\u06c1\\u06cc\\u06ba\\u06d4", english |-> "Many traditions of the elders appear to be breaking.",
                words |-> <<<<"\\u0628\\u0632\\u0631\\u06af\\u0646 \\u06a9\\u06cc", "N-PL-GEN", "Of elders">>,
                <<"\\u0628\\u06c1\\u062a \\u0633\\u06cc", "ADV+CLF", "Many">>,
                <<"\\u0633\\u0646\\u062a", "N-PL", "Traditions">>,
                <<"\\u0679\\u0648\\u0679\\u062a\\u06cc", "V-PROG-FEM", "Breaking">>,
                <<"\\u062f\\u06a9\\u06be\\u0627\\u0626\\u06cc \\u062f\\u06d2", "V-light", "Appear">>,
                <<"\\u0631\\u06cc", "AUX-PROG-FEM", "Prog. fem.">>,
                <<"\\u06c1\\u0627\\u06ba", "COP.PRES.PL", "Are">>>>]],
     \* line 613
     [key |-> <<1711, 1608, 1604, 32, 1605, 1657, 1608, 1604, 32, 1587, 1604, 1608, 1606, 1657, 1606, 32, 1587, 1608, 32, 1576, 1726, 1585, 32, 1608, 32, 1670, 1729, 1585, 1608, 1748>>,
      value |-> [urdu |-> "\\u06af\\u0648\\u0644 \\u0645\\u0679\\u0648\\u0644 \\u062c\\u06be\\u0631\\u06cc\\u0648\\u06ba \\u0633\\u06d2 \\u0628\\u06be\\u0631\\u0627 \\u0686\\u06c1\\u0631\\u06c1\\u06d4", english |-> "A round face full of wrinkles.",
                words |-> <<<<"\\u06af\\u0648\\u0644 \\u0645\\u0679\\u0648\\u0644", "ADJ", "Round">>,
                <<"\\u0633\\u0644\\u0648\\u0646\\u0679\\u0646", "N-PL", "Wrinkles">>,
                <<"\\u0633\\u0648", "POSTP", "From">>,
                <<"\\u0628\\u06be\\u0631 \\u0648", "V-PST", "Filled">>,
                <<"\\u0686\\u06c1\\u0631\\u0648", "N", "Face">>>>]],
     \* line 624
     [key |-> <<1705, 1662, 1681, 1575, 32, 1705, 1740, 32, 1604, 1608, 1711, 1681, 1740, 1748>>,
      value |-> [urdu |-> "\\u06a9\\u067e\\u0691\\u06d2 \\u06a9\\u0627 \\u062f\\u0648\\u067e\\u0679\\u06c1\\u06d4", english |-> "Scarf made of cloth.",
                words |-> <<<<"\\u06a9\\u067e\\u0691\\u0627", "N", "Cloth">>,
                <<"\\u06a9\\u06cc", "GEN", "Of">>,
                <<"\\u0644\\u0648\\u06af\\u0691\\u06cc", "N", "Scarf/Dupatta">>>>]],
     \* line 633
     [key |-> <<1740, 1575, 32, 1705, 1575, 32, 1605, 1606, 1729, 32, 1587, 1608, 1748>>,
      value |-> [urdu |-> "\\u0627\\u0633 \\u06a9\\u06d2 \\u0645\\u0646\\u06c1 \\u0633\\u06d2\\u06d4", english |-> "From his/her mouth.",
                words |-> <<<<"\\u06cc\\u0627", "DEM", "This/That">>,
                <<"\\u06a9\\u0627", "GEN", "Of">>,
                <<"\\u0645\\u0646\\u06c1 \\u0633\\u0648", "N+POSTP", "Mouth+from">>>>]]
  >>

\* XBAR_TREES: sentence -> bracketed tree text.
XbarLiteral ==
  <<
     \* line 647
     [key |-> <<1580, 1576, 32, 1729, 1605, 1575, 1585, 1740, 32, 1705, 1604, 1575, 1587, 32, 1604, 1711, 1746, 32, 1705, 1585, 1746, 32, 1575, 1740, 1748>>,
      value |-> "[CP [C \\u062c\\u0628]\\n    [TP [DP [D \\u06c1\\u0645\\u0627\\u0631\\u06cc] [NP [N \\u06a9\\u0644\\u0627\\u0633]]]\\n       [T' \\n            [VP [V   \\u0644\\u06af\\u06d2 \\u06a9\\u0631\\u06d2 \\u0627\\u06cc]][T Past]]]]"],
     \* line 649
     [key |-> <<1705, 1729, 32, 1575, 1608, 32, 1705, 1578, 1606, 1608, 32, 1662, 1582, 1578, 1608, 32, 1604, 1705, 1726, 1575, 1585, 1740, 32, 1575, 1746, 1748>>,
      value |-> "[CP [C \\u06a9\\u06c1]\\n    [TP [DP [D \\u2205] [NP \\u0627\\u0648]]\\n        [T'\\n            [VP [DP [D \\u2205] [NP [AP \\u06a9\\u062a\\u0646\\u0648 \\u067e\\u062e\\u062a\\u0648] [N' [N \\u0644\\u06a9\\u06be\\u0627\\u0631\\u06cc]]]] [V \\u0627\\u06d2]] [T \\u2205]]]]"],
     \* line 651
     [key |-> <<1575, 1711, 1585, 32, 1608, 1746, 32, 1740, 1575, 32, 1604, 1576, 1575, 1587, 32, 1575, 1746, 32, 1662, 1729, 1585, 1740, 32, 1585, 1575, 1705, 1726, 1575, 1722, 1748>>,
      value |-> "[CP [C \\u0627\\u06af\\u0631]\\n    [TP [DP [D \\u2205] [NP \\u0648\\u06d2]]\\n        [T' \\n            [VP [DP [D \\u06cc\\u0627] [NP [N \\u0644\\u0628\\u0627\\u0633]]]\\n                [V \\u067e\\u06c1\\u0631\\u06cc \\u0631\\u0627\\u06a9\\u06be\\u0627\\u06ba ]][T Present]]]]]"],
     \* line 653
     [key |-> <<1711, 1740, 1575, 1606, 1740, 32, 1575, 1608, 1585, 32, 1578, 1593, 1604, 1740, 1605, 32, 1705, 1575, 32, 1605, 1575, 1729, 1585, 32, 1604, 1608, 1711, 1606, 32, 1705, 1608, 32, 1575, 1740, 32, 1605, 1575, 1606, 1606, 1608, 1575, 1746, 1748>>,
      value |-> "[TP\\n   [DP \\n      [DP \\n         [NP [NP \\u06af\\u06cc\\u0627\\u0646\\u06cc \\u0627\\u0648\\u0631 \\u062a\\u0639\\u0644\\u06cc\\u0645] \\n             [PP [P \\u06a9\\u0627] [NP \\u0645\\u0627\\u06c1\\u0631]]]]\\n      [DP \\n         [NP [NP \\u0644\\u0648\\u06af\\u0646] \\n             [PP [P \\u06a9\\u0648]]]]\\n   ]\\n\\n   [T'\\n      [VP \\n         [V' [Dp \\u0627\\u06cc] [V \\u0645\\u0627\\u0646\\u0646\\u0648\\u0627\\u06d2]]]\\n      [T Past]\\n   ]\\n]"],
     \* line 655
     [key |-> <<1605, 1740, 1585, 1746, 32, 1605, 1575, 1585, 1746, 32, 1576, 1740, 32, 1575, 1576, 32, 1578, 1705, 32, 1575, 1740, 1705, 32, 1575, 1670, 1726, 1606, 1576, 1608, 32, 1587, 1608, 1575, 1740, 32, 1575, 1746, 1748>>,
      value |-> "[TP [DP [D \\u2205] [N \\u0645\\u06cc\\u0631\\u06d2 \\u0645\\u0627\\u0631\\u06d2 \\u0628\\u06cc]] [T' [VP [V' [AdvP \\u0627\\u0628 \\u062a\\u06a9] [V' [DP [D \\u0627\\u06cc\\u06a9] [NP [AP \\u0627\\u0686\\u06be\\u0646\\u0628\\u0648] [N' [N \\u0633\\u0648\\u0627\\u06cc]]]] [V \\u0627\\u06d2]]]] [T Present]]]"],
     \* line 657
     [key |-> <<1583, 1606, 1740, 1575, 32, 1570, 32, 1580, 1575, 32, 1585, 1740, 32, 1729, 1740, 1748>>,
      value |-> "[TP [DP [D \\u2205] [NP \\u062f\\u0646\\u06cc\\u0627]]\\n    [T'  [VP  [V \\u0622][V   \\u062c\\u0627  \\u0631\\u06cc  ]][T Past]]]"],
     \* line 659
     [key |-> <<1705, 1575, 32, 1729, 1605, 32, 1605, 1575, 1590, 1740, 32, 1586, 1606, 1583, 1729, 32, 1585, 1705, 1726, 32, 1587, 1705, 1575, 1722, 1567>>,
      value |-> "[CP [C \\u06a9\\u0627] [TP [DP [D \\u2205] [NP \\u06c1\\u0645]] [T' [VP [DP [D \\u0627\\u06d2] [NP \\u0645\\u0627\\u0636\\u06cc]][V' [V \\u0632\\u0646\\u062f\\u06c1 \\u0631\\u06a9\\u06be \\u0633\\u06a9\\u0627\\u06ba] ]] [T \\u2205]]]]"],
     \* line 661
     [key |-> <<1705, 1729, 1575, 32, 1605, 1740, 1608, 32, 1585, 1608, 1587, 32, 1605, 1740, 1722, 32, 1576, 1575, 1608, 1604, 1575, 32, 1729, 1608, 32, 1711, 1575, 1567>>,
      value |-> "[CP [C \\u06a9\\u06c1\\u0627] [TP [DP [D \\u2205] [NP \\u0645\\u06cc\\u0648]] [T' [VP [V' [V \\u0628\\u0627\\u0648\\u0644\\u0627 \\u06c1\\u0648 \\u06af\\u0627]] [PP \\u0631\\u0648\\u0633 \\u0645\\u06cc\\u06ba]] [T Past]]]]"],
     \* line 663
     [key |-> <<1705, 1729, 1575, 32, 1662, 1608, 1670, 1726, 1608, 32, 1580, 1575, 1574, 1740, 1711, 1608, 32, 1602, 1576, 1585, 32, 1605, 1740, 1722, 1567>>,
      value |-> "[CP [C \\u06a9\\u06c1\\u0627] [TP [DP \\u2205] [T' [VP [V' [V \\u067e\\u0648\\u0686\\u06be\\u0648 \\u062c\\u0627\\u0626\\u06cc\\u06af\\u0648]] [PP \\u0642\\u0628\\u0631 \\u0645\\u06cc\\u06ba]] [T Future]]]]"],
     \* line 665
     [key |-> <<1575, 1608, 1705, 1729, 1606, 32, 1580, 1575, 32, 1585, 1608, 32, 1575, 1746, 1567>>,
      value |-> "[CP [DP [D \\u2205] [N \\u0627\\u0648]] [C' [C \\u06a9\\u06c1\\u0646] [TP [DP \\u2205] [T' [AuxP  [VP [V \\u062c\\u0627]] [Aux \\u0631\\u0648\\u0627\\u06d2 ]] [T Prog]]]]]\\n\\n[CP [Spec [DP [D \\u2205] [N \\u0627\\u0648]]] [C' [C \\u06a9\\u06c1\\u0646] [TP [Spec [DP \\u2205]] [T' [T Prog] [AuxP [Aux' [Aux \\u0631\\u0648\\u0627\\u06d2] [VP [V' [V \\u062c\\u0627]]]]]]]]]"],
     \* line 667
     [key |-> <<1578, 1740, 1606, 1746, 32, 1705, 1729, 1575, 32, 1705, 1726, 1575, 1740, 1608, 1567>>,
      value |-> "[TP [DP [D \\u2205] [NP \\u062a\\u06cc\\u0646\\u06d2]]\\n    [T' [T \\u2205]\\n        [VP [DP [D \\u2205] [NP \\u06a9\\u06c1\\u0627]] [V \\u06a9\\u06be\\u0627\\u06cc\\u0648]]]]"],
     \* line 669
     [key |-> <<1729, 1605, 32, 1585, 1575, 1578, 32, 1705, 1576, 32, 1587, 1608, 1740, 1575, 32, 1729, 1575, 1567>>,
      value |-> "[CP [C \\u06a9\\u0628]\\n    [TP [DP [D \\u2205] [NP \\u06c1\\u0645]]\\n        [T' [T \\u06c1\\u0627]\\n            [VP [AdvP \\u0631\\u0627\\u062a] [V \\u0633\\u0648\\u06cc\\u0627]]]]]"],
     \* line 671
     [key |-> <<1575, 1740, 32, 1580, 1575, 1681, 1575, 1606, 32, 1705, 1740, 32, 1576, 1575, 1578, 32, 1575, 1740, 1748>>,
      value |-> "[TP [Spec [DP [D \\u2205] [N \\u0627\\u06cc]]] [T' [T \\u2205] [VP [V' [DP [D \\u2205] [NP [NP \\u062c\\u0627\\u0691\\u0627\\u0646] [PP [P \\u06a9\\u06cc] [NP \\u0628\\u0627\\u062a]]]] [V \\u0627\\u06cc]]]]]"],
     \* line 673
     [key |-> <<1575, 1608, 32, 1575, 1670, 1726, 1608, 32, 1570, 1583, 1605, 1740, 32, 1729, 1608, 1748>>,
      value |-> "[TP [Spec [DP [D \\u2205] [N \\u0627\\u0648]]] [T'  [VP [V'  [DP [D \\u2205] [NP [AP \\u0627\\u0686\\u06be\\u0648] [N \\u0622\\u062f\\u0645\\u06cc]]][V \\u06c1\\u0648]]][T \\u2205]]]"],
     \* line 675
     [key |-> <<1576, 1740, 1585, 1576, 1575, 1606, 1740, 32, 1576, 1681, 1740, 32, 1605, 1604, 1608, 1705, 32, 1729, 1740, 1748>>,
      value |-> "[TP [Spec [DP [D \\u2205] [NP \\u0628\\u06cc\\u0631\\u0628\\u0627\\u0646\\u06cc]]] [T'  [VP [V' [AP [A' [DegP \\u0628\\u0691\\u06cc] [A \\u0645\\u0644\\u0648\\u06a9]]] [V \\u06c1\\u06cc]]][T \\u2205]]]"],
     \* line 677
     [key |-> <<1576, 1608, 1681, 1726, 1740, 32, 1575, 1605, 1575, 1722, 32, 1606, 1746, 32, 1705, 1583, 1740, 32, 1705, 1575, 1574, 1740, 32, 1705, 1740, 32, 1576, 1585, 1575, 1574, 1740, 32, 1606, 1729, 32, 1705, 1585, 1740, 1748>>,
      value |-> "[TP [Spec [DP [D \\u2205] [NP [AP \\u0628\\u0648\\u0691\\u06be\\u06cc] [N' [N \\u0627\\u0645\\u0627\\u06ba] [CaseP [Case \\u0646\\u06d2]]]]]] [T'  [VP [AdvP \\u06a9\\u062f\\u06cc] [V' [DP [D \\u2205] [N \\u06a9\\u0627\\u0626\\u06cc]] [V' [NP [N'  [PP [P \\u06a9\\u06cc] [NP \\u2205]]][N \\u0628\\u0631\\u0627\\u0626\\u06cc]] [V' [AdvP \\u0646\\u06c1] [V \\u06a9\\u0631\\u06cc]]]]][T Perf]]]"],
     \* line 679
     [key |-> <<1605, 1740, 1608, 1575, 1578, 1740, 32, 1586, 1576, 1575, 1606, 32, 1575, 1662, 1606, 1740, 32, 1576, 1602, 1575, 32, 1705, 1740, 32, 1580, 1606, 1711, 32, 1604, 1681, 1585, 1740, 32, 1575, 1746, 1748>>,
      value |-> "[TP [DP [D \\u2205] [NP [AP \\u0645\\u06cc\\u0648\\u0627\\u062a\\u06cc] [N' [N \\u0632\\u0628\\u0627\\u0646]]]]\\n    [T' [T \\u0627\\u06d2]\\n        [VP [DP [D \\u2205] [NP [NP \\u0627\\u067e\\u0646\\u06cc \\u0628\\u0642\\u0627] [PP [P \\u06a9\\u06cc] [NP \\u062c\\u0646\\u06af]]]] [V \\u0644\\u0691\\u0631\\u06cc]]]]"],
     \* line 681
     [key |-> <<1576, 1586, 1585, 1711, 1606, 32, 1705, 1740, 32, 1576, 1729, 1578, 32, 1587, 1740, 32, 1587, 1606, 1578, 32, 1657, 1608, 1657, 1578, 1740, 32, 1583, 1705, 1726, 1575, 1574, 1740, 32, 1583, 1746, 32, 1585, 1740, 32, 1729, 1575, 1722, 1748>>,
      value |-> "[TP [DP [D \\u2205] [NP [NP \\u0628\\u0632\\u0631\\u06af\\u0646] [PP [P \\u06a9\\u06cc] [NP [AP \\u0628\\u06c1\\u062a \\u0633\\u06cc] [N' [N \\u0633\\u0646\\u062a]]]]]]\\n    [T' [T \\u06c1\\u0627\\u06ba]\\n        [VP [V' [V \\u0679\\u0648\\u0679\\u062a\\u06cc]\\n            [V' [V \\u062f\\u06a9\\u06be\\u0627\\u0626\\u06cc]\\n                [V' [V \\u062f\\u06d2]\\n                    [V' [V \\u0631\\u06cc] [V \\u2205]]]]]]]]"],
     \* line 683
     [key |-> <<1711, 1608, 1604, 32, 1605, 1657, 1608, 1604, 32, 1587, 1604, 1608, 1606, 1657, 1606, 32, 1587, 1608, 32, 1576, 1726, 1585, 32, 1608, 32, 1670, 1729, 1585, 1608, 1748>>,
      value |-> "[TP [Spec [DP [D \\u2205] [NP [AP \\u06af\\u0648\\u0644 \\u0645\\u0679\\u0648\\u0644] [N' [AP \\u0633\\u0644\\u0648\\u0646\\u0679\\u0646 \\u0633\\u0648 \\u0628\\u06be\\u0631 \\u0648] [N' [N \\u0686\\u06c1\\u0631\\u0648]]]]]] [T' [T \\u2205] [VP \\u2205]]]"],
     \* line 685
     [key |-> <<1705, 1662, 1681, 1575, 32, 1705, 1740, 32, 1604, 1608, 1711, 1681, 1740, 1748>>,
      value |-> "[TP [DP [D \\u2205] [NP [N' [N \\u06a9\\u067e\\u0691\\u0627] [PP [P \\u06a9\\u06cc] [NP [N \\u0644\\u0648\\u06af\\u0691\\u06cc]]]]]] [T' [T \\u2205] [VP \\u2205]]]"],
     \* line 687
     [key |-> <<1740, 1575, 32, 1705, 1575, 32, 1605, 1606, 1729, 32, 1587, 1608, 1748>>,
      value |-> "[TP [DP [D \\u06cc\\u0627 \\u06a9\\u0627] [NP [N' [N \\u0645\\u0646\\u06c1] [PP [P \\u0633\\u0648]]]]] [T' [T \\u2205] [VP \\u2205]]]"]
  >>

\* ------------------------------------------------------------------------
\* dict operations (a dict is the sequence of its items in insertion order)
\* ------------------------------------------------------------------------
\* list(d.keys())
keys(d) == [i \in 1..Len(d) |-> d[i].key]

\* k in d
contains(d, k) == \E i \in 1..Len(d) : d[i].key = k

\* d[k], for k in d
getitem(d, k) == d[CHOOSE i \in 1..Len(d) : d[i].key = k].value

\* a lookup that also accepts a key the sentence is the beginning of
get_startswith(d, k) ==
  LET hits == {i \in 1..Len(d) :
                 /\ k # <<>> /\ Len(k) <= Len(d[i].key)
                 /\ SubSeq(d[i].key, 1, Len(k)) = k}
  IN IF hits = {} THEN None
     ELSE Some(d[CHOOSE i \in hits : \A j \in hits : i <= j].value)

\* d.get(k): the value, or None
get(d, k) == IF contains(d, k) THEN Some(getitem(d, k)) ELSE None

\* xs[:n]
take(xs, n) == SubSeq(xs, 1, IF Len(xs) < n THEN Len(xs) ELSE n)

\* ------------------------------------------------------------------------
\* State
\* ------------------------------------------------------------------------
VARIABLES
  main,             \* which module runs as __main__: "app.py" (the Flask
                    \* application), "mewati_model.py" (the GUI), or
                    \* "caller" (a caller that imports the helpers)
  Tree_imported,    \* whether mewati_model imported nltk.Tree (else Tree
                    \* is None)
  MORPH_FEATURES,   \* the four module-level dicts of mewati_model
  SPACY_FEATURES,
  LEIPZIG_ENTRIES,
  XBAR_TREES,
  call,             \* caller: the current call of a helper and its result
  prev,             \* caller: the call before it
  request,          \* app.py: the request last handled
  response,         \* app.py: the response to it
  typed,            \* GUI: the sentence the user enters in this session
  text_entry,       \* GUI: content of the Entry widget
  cursor,           \* GUI: cursor of the root window
  title,            \* GUI: title of the root window
  event,            \* GUI: the button handler last run and what it showed
  popup,            \* GUI: the table popup opened last
  clipboard,        \* GUI: content of the clipboard
  pending,          \* GUI: the button presses waiting in the event queue
  running           \* GUI: the run_with_status calls that have not
                    \* returned, outermost first, each with its position

tables == <<MORPH_FEATURES, SPACY_FEATURES, LEIPZIG_ENTRIES, XBAR_TREES>>
web == <<request, response>>
caller == <<call, prev>>
gui == <<typed, text_entry, cursor, title, event, popup, clipboard>>
events == <<pending, running>>
vars == <<main, Tree_imported, tables, events, caller, web, gui>>

\* ------------------------------------------------------------------------
\* Inputs
\* ------------------------------------------------------------------------
MaxLen == 3      \* longest string over Alphabet a caller passes
MaxRun == 12     \* longest run of letters a caller passes
MaxTyped == 2    \* longest string over TypedAlphabet a user enters
MaxClick == 1    \* last row of a popup the user clicks
MaxPending == 1  \* most button presses that wait in the event queue
MaxNested == 2   \* most run_with_status calls that have not returned
MaxNumber == 9   \* largest number whose numerals the value conversion knows

\* the three marks, space, tab, "a", "E"
Alphabet == {1748, 1567, 33, 32, 9, 97, 69}

\* full stop, space, tab, "a"
TypedAlphabet == {1748, 32, 9, 97}

StringsUpTo(A, n) == UNION {[1..k -> A] : k \in 0..n}

\* i times c
RECURSIVE repeat(_, _)
repeat(c, i) == IF i = 0 THEN <<>> ELSE <<c>> \o repeat(c, i - 1)

\* "a" * i + "b" * j, and "aeiou"
Runs == {repeat(97, i) \o repeat(98, j) : i \in 0..MaxRun, j \in 0..MaxRun}
RunInputs == {s \in Runs : Len(s) <= MaxRun} \cup {<<97, 101, 105, 111, 117>>}

AllKeys ==
  {MorphLiteral[i].key : i \in 1..Len(MorphLiteral)} \cup
  {SpacyLiteral[i].key : i \in 1..Len(SpacyLiteral)} \cup
  {LeipzigLiteral[i].key : i \in 1..Len(LeipzigLiteral)} \cup
  {XbarLiteral[i].key : i \in 1..Len(XbarLiteral)}

\* a key as a user may type it: padded, with marks at its end, with a
\* doubled space, a mark, or a mark between whitespace after its second
\* character
Decorated(k) ==
  {<<32>> \o k \o <<1748, 32>>,
   k \o <<33, 1567>>,
   <<9>> \o k,
   SubSeq(k, 1, 2) \o <<32, 32>> \o SubSeq(k, 3, Len(k)),
   SubSeq(k, 1, 2) \o <<33>> \o SubSeq(k, 3, Len(k)),
   SubSeq(k, 1, 2) \o <<32, 1748, 9>> \o SubSeq(k, 3, Len(k))}

\* sentences one edit away from key k after normalization: another last
\* letter, a mark that normalization keeps ("?"), the first inner space
\* missing, a space inside the first word, and the first word alone
NearKeys(k) ==
  LET p == CHOOSE i \in 1..Len(k) :
             k[i] = SPACE /\ \A j \in 1..(i - 1) : k[j] # SPACE
  IN {SubSeq(k, 1, Len(k) - 1) \o <<97>>,
      k \o <<63>>,
      SubSeq(k, 1, p - 1) \o SubSeq(k, p + 1, Len(k)),
      <<k[1], SPACE>> \o SubSeq(k, 2, Len(k)),
      SubSeq(k, 1, p - 1)}

DecoratedKeys == Decorated(MorphLiteral[1].key) \cup Decorated(MorphLiteral[6].key)

CallInputs ==
  StringsUpTo(Alphabet, MaxLen) \cup RunInputs \cup AllKeys \cup DecoratedKeys

MorphKeys == {MorphLiteral[i].key : i \in 1..Len(MorphLiteral)}

\* what a user submits in a form field or types into the Entry widget
TypedInputs ==
  StringsUpTo(TypedAlphabet, MaxTyped) \cup MorphKeys \cup DecoratedKeys \cup
  {LeipzigLiteral[1].key, LeipzigLiteral[7].key, XbarLiteral[2].key} \cup
  NearKeys(MorphLiteral[1].key)

\* ------------------------------------------------------------------------
\* mewati_model.py: build_xbar_tree
\* ------------------------------------------------------------------------
Tree(label, children) == [label |-> label, children |-> children]

\* the VP given tokens[1:] also when there is one token
build_xbar_tree_empty_vp(toks, HasTree) ==
  LET tokens == IF toks = <<>> THEN << <<8212>> >> ELSE toks
  IN IF ~HasTree THEN [kind |-> "list", label |-> "TP", items |-> tokens]
     ELSE [kind |-> "Tree", label |-> "TP",
           items |->
             <<[label |-> "DP", children |-> <<tokens[1]>>],
               [label |-> "T'",
                children |-> <<[label |-> "T", children |-> << <<8230>> >>],
                               [label |-> "VP", children |-> Tail(tokens)]>>]>>]

\* HasTree is FALSE when the import of nltk.Tree failed (Tree is None)
build_xbar_tree(toks, HasTree) ==
  LET tokens == IF toks = <<>> THEN << <<8212>> >> ELSE toks
  IN IF ~HasTree THEN [kind |-> "list", label |-> "TP", items |-> tokens]
     ELSE [kind |-> "Tree", label |-> "TP",
           items |->
             <<Tree("DP", <<tokens[1]>>),
               Tree("T'", <<Tree("T", << <<8230>> >>),
                            Tree("VP", IF Len(tokens) > 1 THEN Tail(tokens)
                                       ELSE << <<8230>> >>)>>)>>]

\* ------------------------------------------------------------------------
\* A caller of the helpers
\* ------------------------------------------------------------------------
Functions == {"normalize_sentence", "predict_beauty_score", "build_xbar_tree"}

NoCall == [fn |-> "", how |-> "", arg |-> <<>>, ret |-> None]

\* build_xbar_tree is called as display_tree calls it, with arg.split()
apply(fn, arg) ==
  IF fn = "normalize_sentence" THEN normalize_sentence(arg)
  ELSE IF fn = "predict_beauty_score" THEN predict_beauty_score(arg)
  ELSE build_xbar_tree(split(arg), Tree_imported)

\* fn(arg)
Call ==
  /\ main = "caller"
  /\ call.ret = None
  /\ call' = [call EXCEPT !.how = "call", !.ret = Some(apply(call.fn, call.arg))]
  /\ UNCHANGED <<main, Tree_imported, tables, events, prev, web, gui>>

\* normalize_sentence(normalize_sentence(arg)): the result is passed again
CallAgain ==
  /\ main = "caller"
  /\ call.fn = "normalize_sentence"
  /\ call.how = "call"
  /\ prev' = call
  /\ call' = [call EXCEPT !.how = "again", !.arg = call.ret[1],
                          !.ret = Some(normalize_sentence(call.ret[1]))]
  /\ UNCHANGED <<main, Tree_imported, tables, events, web, gui>>

\* s with c inserted before position p
insert(s, p, c) == SubSeq(s, 1, p - 1) \o <<c>> \o SubSeq(s, p, Len(s))

MARKS == {URDU_FULL_STOP, ARABIC_QUESTION_MARK, EXCLAMATION_MARK}

\* normalize_sentence of the same argument with a mark put into it
CallWithMark ==
  /\ main = "caller"
  /\ call.fn = "normalize_sentence"
  /\ call.how = "call"
  /\ \E p \in 1..(Len(call.arg) + 1), c \in MARKS :
       LET arg == insert(call.arg, p, c) IN
         /\ prev' = call
         /\ call' = [call EXCEPT !.how = "mark", !.arg = arg,
                                 !.ret = Some(normalize_sentence(arg))]
  /\ UNCHANGED <<main, Tree_imported, tables, events, web, gui>>

\* ------------------------------------------------------------------------
\* app.py
\* ------------------------------------------------------------------------
\* "No morphological features found for: "
NO_FEATURES_FOUND_FOR ==
  <<78, 111, 32, 109, 111, 114, 112, 104, 111, 108, 111, 103, 105, 99, 97,
    108, 32, 102, 101, 97, 116, 117, 114, 101, 115, 32, 102, 111, 117, 110,
    100, 32, 102, 111, 114, 58, 32>>

\* "Please enter a sentence."
PLEASE_ENTER_A_SENTENCE ==
  <<80, 108, 101, 97, 115, 101, 32, 101, 110, 116, 101, 114, 32, 97, 32, 115,
    101, 110, 116, 101, 110, 99, 101, 46>>

SAMPLE_COUNT == 10

NoRequest ==
  [method |-> "", path |-> "", form_id |-> None, text |-> None,
   mewati_text |-> None]

\* the variables of home before the request is looked at
DefaultContext ==
  [beauty_result |-> None, beauty_input |-> <<>>, mewati_input |-> <<>>,
   mewati_rows |-> None, mewati_error |-> None, sample_sentences |-> <<>>]

NoResponse ==
  [status |-> 0, body |-> None, template |-> None, context |-> DefaultContext]

\* request.form.get(name, "")
form_get(field) == IF field = None THEN <<>> ELSE field[1]

\* the branch of home for form_id == "beauty"
home_beauty(req, ctx) ==
  LET beauty_input == strip(form_get(req.text))
  IN [ctx EXCEPT !.beauty_input = beauty_input,
                 !.beauty_result =
                    IF beauty_input # <<>>
                    THEN Some(predict_beauty_score(beauty_input))
                    ELSE None]

\* the not-found message built from the input as typed, not as normalized
home_mewati_raw_message(req, ctx) ==
  LET mewati_input == form_get(req.mewati_text)
      normalized == normalize_sentence(strip(mewati_input))
      mewati_rows == get(MORPH_FEATURES, normalized)
  IN IF normalized # <<>>
     THEN [ctx EXCEPT !.mewati_input = strip(mewati_input),
                      !.mewati_rows = mewati_rows,
                      !.mewati_error =
                         IF mewati_rows = None \/ mewati_rows = Some(<<>>)
                         THEN Some(NO_FEATURES_FOUND_FOR \o mewati_input)
                         ELSE None]
     ELSE [ctx EXCEPT !.mewati_input = strip(mewati_input),
                      !.mewati_error = Some(PLEASE_ENTER_A_SENTENCE)]

\* the mewati branch without its else: an empty sentence sets nothing
home_mewati_silent_blank(req, ctx) ==
  LET mewati_input == strip(form_get(req.mewati_text))
      normalized == normalize_sentence(mewati_input)
      mewati_rows == get(MORPH_FEATURES, normalized)
  IN IF normalized # <<>>
     THEN [ctx EXCEPT !.mewati_input = mewati_input,
                      !.mewati_rows = mewati_rows,
                      !.mewati_error =
                         IF mewati_rows = None \/ mewati_rows = Some(<<>>)
                         THEN Some(NO_FEATURES_FOUND_FOR \o normalized)
                         ELSE None]
     ELSE [ctx EXCEPT !.mewati_input = mewati_input]

\* the branch of home for form_id == "mewati"
home_mewati(req, ctx) ==
  LET mewati_input == strip(form_get(req.mewati_text))
      normalized == normalize_sentence(mewati_input)
      mewati_rows == get(MORPH_FEATURES, normalized)
  IN IF normalized # <<>>
     THEN [ctx EXCEPT !.mewati_input = mewati_input,
                      !.mewati_rows = mewati_rows,
                      !.mewati_error =
                         IF mewati_rows = None \/ mewati_rows = Some(<<>>)
                         THEN Some(NO_FEATURES_FOUND_FOR \o normalized)
                         ELSE None]
     ELSE [ctx EXCEPT !.mewati_input = mewati_input,
                      !.mewati_error = Some(PLEASE_ENTER_A_SENTENCE)]

\* home looking at the fields a request carries instead of its form_id
home_context_any_form(req) ==
  LET c1 == IF req.method = "POST" /\ req.text # None
              THEN home_beauty(req, DefaultContext) ELSE DefaultContext
      c2 == IF req.method = "POST" /\ req.mewati_text # None
              THEN home_mewati(req, c1) ELSE c1
  IN [c2 EXCEPT !.sample_sentences = take(keys(MORPH_FEATURES), SAMPLE_COUNT)]

\* the keyword arguments home passes to render_template
home_context(req) ==
  LET ctx == IF req.method = "POST" /\ req.form_id = Some("beauty")
               THEN home_beauty(req, DefaultContext)
             ELSE IF req.method = "POST" /\ req.form_id = Some("mewati")
               THEN home_mewati(req, DefaultContext)
             ELSE DefaultContext
  IN [ctx EXCEPT !.sample_sentences = take(keys(MORPH_FEATURES), SAMPLE_COUNT)]

FormIds == {None, Some("beauty"), Some("mewati"), Some("other")}

\* the other field of a form, which home must not look at
FewInputs == {None, Some(<<97>>), Some(MorphLiteral[1].key)}

RichInputs == {None} \cup {Some(s) : s \in TypedInputs}

HomeRequests ==
  {[method |-> "GET", path |-> "/", form_id |-> None, text |-> None,
    mewati_text |-> None]} \cup
  {[method |-> "POST", path |-> "/", form_id |-> f, text |-> t,
    mewati_text |-> m] : f \in FormIds, t \in FewInputs, m \in FewInputs} \cup
  {[method |-> "POST", path |-> "/", form_id |-> Some("beauty"), text |-> t,
    mewati_text |-> None] : t \in RichInputs} \cup
  {[method |-> "POST", path |-> "/", form_id |-> Some("mewati"), text |-> None,
    mewati_text |-> m] : m \in RichInputs}

\* home with its variables kept in module globals: a request starts from
\* the values the request before it left
home_remembers(req) ==
  /\ main = "app.py"
  /\ request' = req
  /\ response' =
       [status |-> 200, body |-> None, template |-> Some("index.html"),
        context |->
          LET ctx == IF req.method = "POST" /\ req.form_id = Some("beauty")
                       THEN home_beauty(req, response.context)
                     ELSE IF req.method = "POST" /\ req.form_id = Some("mewati")
                       THEN home_mewati(req, response.context)
                     ELSE response.context
          IN [ctx EXCEPT !.sample_sentences =
                            take(keys(MORPH_FEATURES), SAMPLE_COUNT)]]
  /\ UNCHANGED <<main, Tree_imported, tables, events, caller, gui>>

\* d.pop(k, None): the dict without the item of k
dict_pop(d, k) == SelectSeq(d, LAMBDA item : item.key # k)

\* MORPH_FEATURES.pop(normalized, None) in the place of .get(normalized)
home_pop(req) ==
  /\ main = "app.py"
  /\ request' = req
  /\ response' = [status |-> 200, body |-> None,
                  template |-> Some("index.html"),
                  context |-> home_context(req)]
  /\ MORPH_FEATURES' =
       dict_pop(MORPH_FEATURES,
                normalize_sentence(strip(form_get(req.mewati_text))))
  /\ UNCHANGED <<main, Tree_imported, SPACY_FEATURES, LEIPZIG_ENTRIES,
                 XBAR_TREES, events, caller, gui>>

\* GET or POST /
home(req) ==
  /\ main = "app.py"
  /\ request' = req
  /\ response' = [status |-> 200, body |-> None,
                  template |-> Some("index.html"),
                  context |-> home_context(req)]
  /\ UNCHANGED <<main, Tree_imported, tables, events, caller, gui>>

\* a health check that reports the failure of the request before it
health_reports_last_error ==
  /\ main = "app.py"
  /\ request' = [NoRequest EXCEPT !.method = "GET", !.path = "/health"]
  /\ response' = IF response.context.mewati_error # None
                 THEN [NoResponse EXCEPT !.status = 500,
                                         !.body = Some("ERROR")]
                 ELSE [NoResponse EXCEPT !.status = 200, !.body = Some("OK")]
  /\ UNCHANGED <<main, Tree_imported, tables, events, caller, gui>>

\* GET /health
health ==
  /\ main = "app.py"
  /\ request' = [NoRequest EXCEPT !.method = "GET", !.path = "/health"]
  /\ response' = [NoResponse EXCEPT !.status = 200, !.body = Some("OK")]
  /\ UNCHANGED <<main, Tree_imported, tables, events, caller, gui>>

\* ------------------------------------------------------------------------
\* mewati_model.py: the GUI
\* ------------------------------------------------------------------------
MORPHO_HEADERS ==
  <<"Word", "Root", "Morph Structure", "Phonemic Change", "Explanation">>
SPACY_HEADERS == <<"Word", "Lemma", "POS", "Dependency", "Explanation", "Head">>
GLOSS_HEADERS == <<"Item", "Value", "Meaning">>

\* "No morphological features for:\n"
NO_MORPHO_FOR ==
  <<78, 111, 32, 109, 111, 114, 112, 104, 111, 108, 111, 103, 105, 99, 97,
    108, 32, 102, 101, 97, 116, 117, 114, 101, 115, 32, 102, 111, 114, 58, 10>>

\* "No SpaCy features for:\n"
NO_SPACY_FOR ==
  <<78, 111, 32, 83, 112, 97, 67, 121, 32, 102, 101, 97, 116, 117, 114, 101,
    115, 32, 102, 111, 114, 58, 10>>

\* "No Leipzig glossing for:\n"
NO_GLOSS_FOR ==
  <<78, 111, 32, 76, 101, 105, 112, 122, 105, 103, 32, 103, 108, 111, 115,
    115, 105, 110, 103, 32, 102, 111, 114, 58, 10>>

GLOSS_SPECIAL_HEADER_INDEX == 4

Buttons ==
  {"Morphological Features", "SpaCy Features", "Leipzig Glossing",
   "X-Bar Syntax Tree", "Clear Input"}

\* what a button handler showed: an error box, a table popup, a tree window
NoEvent ==
  [button |-> "", text |-> <<>>, shown |-> "", messagebox |-> None,
   tree |-> None, raised |-> FALSE]

\* messagebox.showerror(title, message); the box is modal and is closed
\* before the handler returns
showerror(ev, box_title, message) ==
  [ev EXCEPT !.shown = "messagebox",
             !.messagebox = Some([title |-> box_title, message |-> message])]

\* show_table_popup: the Toplevel with its Treeview, nothing selected.  The
\* column width loop reads r[headers.index(col)] of every row and raises
\* IndexError on a row shorter than the headers.
popup_raises(headers, rows) ==
  \E i \in 1..Len(rows) : Len(rows[i]) < Len(headers)

show_table_popup(popup_title, headers, rows, special_header_index) ==
  [title |-> popup_title, headers |-> headers, rows |-> rows,
   special_header_index |-> special_header_index, selection |-> {}]

\* the entry read without normalize_sentence
get_input_sentence_raw == strip(text_entry)

\* self._get_input_sentence()
get_input_sentence == normalize_sentence(text_entry)

\* the common shape of display_morpho, display_spacy_analysis and
\* display_gloss: the error box and return when the sentence is no key,
\* else the popup pop (no popup when show_table_popup raises)
lookup_outcome(button, found, not_found_message, pop) ==
  LET ev == [NoEvent EXCEPT !.button = button, !.text = text_entry]
  IN /\ IF ~found
          THEN /\ event' = showerror(ev, "Not Found", not_found_message)
               /\ UNCHANGED popup
        ELSE IF popup_raises(pop.headers, pop.rows)
          THEN /\ event' = [ev EXCEPT !.raised = TRUE]
               /\ UNCHANGED popup
        ELSE /\ event' = [ev EXCEPT !.shown = "popup"]
             /\ popup' = Some(pop)
     /\ UNCHANGED text_entry

display_morpho ==
  LET sent == get_input_sentence
      found == contains(MORPH_FEATURES, sent)
      rows == IF found THEN getitem(MORPH_FEATURES, sent) ELSE <<>>
  IN lookup_outcome("Morphological Features", found, NO_MORPHO_FOR \o sent,
       show_table_popup("Morphological Features", MORPHO_HEADERS, rows, None))

display_spacy_analysis ==
  LET sent == get_input_sentence
      found == contains(SPACY_FEATURES, sent)
      rows == IF found THEN getitem(SPACY_FEATURES, sent) ELSE <<>>
  IN lookup_outcome("SpaCy Features", found, NO_SPACY_FOR \o sent,
       show_table_popup("SpaCy Features", SPACY_HEADERS, rows, None))

\* the rows display_gloss puts before entry["words"]; the second cell of
\* the first row is the sentence itself
gloss_rows(sent, entry) ==
  << <<"Mewati Sentence", sent, "">>,
     <<"Urdu Translation", entry.urdu, "">>,
     <<"English Translation", entry.english, "">>,
     <<"---", "---", "---">>,
     <<"Word", "Gloss", "Meaning">> >> \o entry.words

display_gloss ==
  LET sent == get_input_sentence
      found == contains(LEIPZIG_ENTRIES, sent)
      rows == IF found THEN gloss_rows(sent, getitem(LEIPZIG_ENTRIES, sent))
              ELSE <<>>
  IN lookup_outcome("Leipzig Glossing", found, NO_GLOSS_FOR \o sent,
       show_table_popup("Leipzig Glossing", GLOSS_HEADERS, rows,
                        Some(GLOSS_SPECIAL_HEADER_INDEX)))

\* XBAR_TREES.get(sent, build_xbar_tree(sent.split())); the GUI starts only
\* when nltk is importable, so Tree is not None here
display_tree ==
  LET sent == get_input_sentence
      stored == get(XBAR_TREES, sent)
      tree == IF stored # None THEN [kind |-> "str", text |-> stored[1]]
              ELSE build_xbar_tree(split(sent), Tree_imported)
  IN /\ event' = [NoEvent EXCEPT !.button = "X-Bar Syntax Tree",
                                 !.text = text_entry, !.shown = "tree",
                                 !.tree = Some(tree)]
     /\ UNCHANGED <<popup, text_entry>>

\* self.text_entry.delete(0, tk.END)
clear_input ==
  /\ text_entry' = <<>>
  /\ event' = [NoEvent EXCEPT !.button = "Clear Input", !.text = text_entry]
  /\ UNCHANGED popup

\* the wrapped function of a button
func(button_text) ==
  CASE button_text = "Morphological Features" -> display_morpho
    [] button_text = "SpaCy Features" -> display_spacy_analysis
    [] button_text = "Leipzig Glossing" -> display_gloss
    [] button_text = "X-Bar Syntax Tree" -> display_tree
    [] button_text = "Clear Input" -> clear_input

\* run_with_status(button_text, func): the command of every button, for a
\* press that finds no other event waiting, so that self.root.update()
\* dispatches nothing.  The finally clause restores cursor and title
\* whether or not func raised.
run_with_status(button_text) ==
  /\ main = "mewati_model.py"
  /\ pending = <<>> /\ running = <<>>
  /\ func(button_text)
  /\ cursor' = ""
  /\ title' = "Mewati Language Model"
  /\ UNCHANGED <<main, Tree_imported, tables, events, caller, web, typed, clipboard>>

\* ------------------------------------------------------------------------
\* mewati_model.py: run_with_status step by step, with presses that wait
\* ------------------------------------------------------------------------
\* the user presses a button; the press waits in the event queue of Tk
press(button_text) ==
  /\ main = "mewati_model.py"
  /\ Len(pending) < MaxPending
  /\ pending' = Append(pending, button_text)
  /\ UNCHANGED <<main, Tree_imported, tables, caller, web, gui, running>>

\* the innermost run_with_status call that has not returned
top == running[Len(running)]

\* An event loop takes the first waiting press and calls the command of
\* its button, which enters run_with_status and sets the watch cursor.  The
\* loop is root.mainloop() when no handler runs, and the self.root.update()
\* call of the innermost handler otherwise: update() dispatches every
\* waiting event, a button press included.
run_with_status_enter ==
  /\ main = "mewati_model.py"
  /\ pending # <<>>
  /\ Len(running) < MaxNested
  /\ IF running = <<>> THEN TRUE ELSE top.pc = "update"
  /\ cursor' = "watch"
  /\ running' = Append(running, [button |-> Head(pending), pc |-> "update"])
  /\ pending' = Tail(pending)
  /\ UNCHANGED <<main, Tree_imported, tables, caller, web, typed, text_entry,
                 title, event, popup, clipboard>>

\* f"Searching: {button_text} ..."
searching(button_text) == "Searching: " \o button_text \o " ..."

\* self.root.update() returns once no event waits; the title is set
run_with_status_update ==
  /\ main = "mewati_model.py"
  /\ running # <<>> /\ top.pc = "update"
  /\ pending = <<>>
  /\ title' = searching(top.button)
  /\ running' = [running EXCEPT ![Len(running)].pc = "func"]
  /\ UNCHANGED <<main, Tree_imported, tables, caller, web, typed, text_entry,
                 cursor, event, popup, clipboard, pending>>

\* func() runs, the finally clause restores cursor and title, and
\* run_with_status returns to the loop that called it
run_with_status_func ==
  /\ main = "mewati_model.py"
  /\ running # <<>> /\ top.pc = "func"
  /\ func(top.button)
  /\ cursor' = ""
  /\ title' = "Mewati Language Model"
  /\ running' = SubSeq(running, 1, Len(running) - 1)
  /\ UNCHANGED <<main, Tree_imported, tables, caller, web, typed, clipboard,
                 pending>>

\* the user enters the sentence of this session into the Entry widget
type_text ==
  /\ main = "mewati_model.py"
  /\ text_entry # typed
  /\ text_entry' = typed
  /\ UNCHANGED <<main, Tree_imported, tables, events, caller, web, typed, cursor, title, event,
                 popup, clipboard>>

\* Ctrl+A in the popup: tree.selection_set(tree.get_children())
select_all ==
  /\ main = "mewati_model.py"
  /\ popup # None
  /\ popup' = Some([popup[1] EXCEPT !.selection = 1..Len(popup[1].rows)])
  /\ UNCHANGED <<main, Tree_imported, tables, events, caller, web, typed, text_entry, cursor, title,
                 event, clipboard>>

\* a click on row i of the Treeview selects that row alone
click_row(i) ==
  /\ main = "mewati_model.py"
  /\ popup # None
  /\ i <= Len(popup[1].rows)
  /\ popup' = Some([popup[1] EXCEPT !.selection = {i}])
  /\ UNCHANGED <<main, Tree_imported, tables, events, caller, web, typed, text_entry, cursor, title,
                 event, clipboard>>

\* the rows of the selected items, in the order of the Treeview
RECURSIVE selected_rows(_, _)
selected_rows(rows, selection) ==
  IF rows = <<>> THEN <<>>
  ELSE selected_rows(SubSeq(rows, 1, Len(rows) - 1), selection) \o
       (IF Len(rows) \in selection THEN <<rows[Len(rows)]>> ELSE <<>>)

\* sep.join(xs); the text is in the escaped form of the table cells
RECURSIVE join(_, _)
join(sep, xs) ==
  IF xs = <<>> THEN ""
  ELSE IF Len(xs) = 1 THEN xs[1]
  ELSE xs[1] \o sep \o join(sep, Tail(xs))

\* "\t" and "\n" in the escaped form
TAB == "\\t"
NEWLINE == "\\n"

\* str(v) of a value tree.item(item)["values"] returns: ttk hands a value
\* back as an int when int() accepts its text, so a numeral loses its
\* leading zeros; any other text comes back as it was put in.  The
\* numerals known here are those of 0..MaxNumber with up to two leading
\* zeros.
item_value(v) ==
  LET n == {i \in 0..MaxNumber :
              v \in {ToString(i), "0" \o ToString(i), "00" \o ToString(i)}}
  IN IF n = {} THEN v ELSE ToString(CHOOSE i \in n : TRUE)

\* copy_selected with clipboard_clear() left out
copy_selected_no_clear ==
  /\ main = "mewati_model.py"
  /\ popup # None
  /\ LET selected == popup[1].selection
         chosen == selected_rows(popup[1].rows, selected)
         lines == <<join(TAB, popup[1].headers)>> \o
                  (IF selected # {}
                   THEN [i \in 1..Len(chosen) |->
                           join(TAB, [j \in 1..Len(chosen[i]) |->
                                        item_value(chosen[i][j])])]
                   ELSE [i \in 1..Len(popup[1].rows) |->
                           join(TAB, popup[1].rows[i])])
         content == join(NEWLINE, lines)
     IN clipboard' = Some(IF clipboard = None THEN content
                          ELSE clipboard[1] \o content)
  /\ UNCHANGED <<main, Tree_imported, tables, events, caller, web, typed, text_entry, cursor, title,
                 event, popup>>

\* Ctrl+C in the popup: clipboard_clear() and clipboard_append(content),
\* content the header line and the lines of the selected rows, or of all
\* rows when none is selected
copy_selected ==
  /\ main = "mewati_model.py"
  /\ popup # None
  /\ LET selected == popup[1].selection
         chosen == selected_rows(popup[1].rows, selected)
         lines == <<join(TAB, popup[1].headers)>> \o
                  (IF selected # {}
                   THEN [i \in 1..Len(chosen) |->
                           join(TAB, [j \in 1..Len(chosen[i]) |->
                                        item_value(chosen[i][j])])]
                   ELSE [i \in 1..Len(popup[1].rows) |->
                           join(TAB, popup[1].rows[i])])
         content == join(NEWLINE, lines)
     IN clipboard' = Some(content)
  /\ UNCHANGED <<main, Tree_imported, tables, events, caller, web, typed, text_entry, cursor, title,
                 event, popup>>

\* ------------------------------------------------------------------------
\* Specification
\* ------------------------------------------------------------------------
Init ==
  /\ main \in {"app.py", "mewati_model.py", "caller"}
  /\ MORPH_FEATURES = MorphLiteral
  /\ SPACY_FEATURES = SpacyLiteral
  /\ LEIPZIG_ENTRIES = LeipzigLiteral
  /\ XBAR_TREES = XbarLiteral
  /\ IF main = "caller"
     THEN \E fn \in Functions, arg \in CallInputs :
            call = [NoCall EXCEPT !.fn = fn, !.arg = arg]
     ELSE call = NoCall
  /\ Tree_imported \in
       (IF main = "caller" /\ call.fn = "build_xbar_tree" THEN BOOLEAN
        ELSE {TRUE})
  /\ prev = NoCall
  /\ request = NoRequest
  /\ response = NoResponse
  /\ typed \in (IF main = "mewati_model.py" THEN TypedInputs ELSE {<<>>})
  /\ text_entry = <<>>
  /\ cursor = ""
  /\ title = (IF main = "mewati_model.py" THEN "Mewati Language Model" ELSE "")
  /\ event = NoEvent
  /\ popup = None
  /\ clipboard = None
  /\ pending = <<>>
  /\ running = <<>>

Next ==
  \/ Call
  \/ CallAgain
  \/ CallWithMark
  \/ \E req \in HomeRequests : home(req)
  \/ health
  \/ \E button_text \in Buttons : run_with_status(button_text)
  \/ type_text
  \/ select_all
  \/ \E i \in 1..MaxClick : click_row(i)
  \/ copy_selected

Spec == Init /\ [][Next]_vars

\* The GUI with presses that wait: the user may press a button while a
\* handler runs.
EventInputs == {MorphLiteral[1].key, <<97>>}

InitEvents ==
  /\ Init
  /\ main = "mewati_model.py"
  /\ typed \in EventInputs

NextEvents ==
  \/ type_text
  \/ \E button_text \in Buttons : press(button_text)
  \/ run_with_status_enter
  \/ run_with_status_update
  \/ run_with_status_func

SpecEvents == InitEvents /\ [][NextEvents]_vars

\* ------------------------------------------------------------------------
\* Properties
\* ------------------------------------------------------------------------
Normalized == call.fn = "normalize_sentence" /\ call.ret # None

\* C1: normalize_sentence is idempotent: when its result is passed to it
\* again, the second result equals the first, for every argument (empty,
\* whitespace only and marks only included).
C1_Idempotent ==
  (Normalized /\ call.how = "again") =>
     /\ call.arg = prev.ret[1]
     /\ call.ret = prev.ret

\* the first call changed its argument, the second was made on a result
\* that holds an inner space
C1_Witness ==
  /\ Normalized /\ call.how = "again"
  /\ prev.arg # prev.ret[1]
  /\ \E i \in 1..Len(call.arg) : call.arg[i] = SPACE
  /\ \E i \in 1..Len(prev.arg) : prev.arg[i] \in MARKS

\* C2: the result of normalize_sentence holds none of the three marks, and
\* an argument with one more mark put into it at any position has the same
\* result.
C2_MarksRemoved ==
  Normalized =>
     /\ \A i \in 1..Len(call.ret[1]) : call.ret[1][i] \notin MARKS
     /\ call.how = "mark" => call.ret = prev.ret

\* a mark was put inside a word of an argument that held a mark already
C2_Witness ==
  /\ Normalized /\ call.how = "mark"
  /\ call.ret[1] # <<>>
  /\ \E i \in 2..(Len(call.arg) - 1) :
        /\ call.arg[i] \in MARKS
        /\ call.arg[i - 1] \notin MARKS \cup WHITESPACE
        /\ call.arg[i + 1] \notin MARKS \cup WHITESPACE
  /\ \E i \in 1..Len(prev.arg) : prev.arg[i] \in MARKS

\* C3: the result of normalize_sentence neither starts nor ends with
\* whitespace, its only whitespace characters are single spaces with no
\* whitespace next to them, and it is empty when the argument holds nothing
\* but whitespace and marks.
C3_WhitespaceCollapsed ==
  Normalized =>
     LET r == call.ret[1] IN
       /\ r # <<>> => ~isspace(r[1]) /\ ~isspace(r[Len(r)])
       /\ \A i \in 1..Len(r) :
             isspace(r[i]) =>
               /\ r[i] = SPACE
               /\ i < Len(r) => ~isspace(r[i + 1])
       /\ (\A i \in 1..Len(call.arg) : call.arg[i] \in WHITESPACE \cup MARKS)
             => r = <<>>

\* a mark stood between two whitespace characters inside the argument, and
\* whitespace was left at its end
C3_Witness ==
  /\ Normalized
  /\ \E i \in 2..(Len(call.arg) - 3) :
        /\ ~isspace(call.arg[i - 1]) /\ call.arg[i - 1] \notin MARKS
        /\ isspace(call.arg[i])
        /\ call.arg[i + 1] \in MARKS
        /\ isspace(call.arg[i + 2])
        /\ ~isspace(call.arg[i + 3]) /\ call.arg[i + 3] \notin MARKS
  /\ \E i \in 1..Len(call.ret[1]) : call.ret[1][i] = SPACE

Scored == call.fn = "predict_beauty_score" /\ call.ret # None

Blank(s) == \A i \in 1..Len(s) : isspace(s[i])

\* C6: predict_beauty_score returns "Please enter some text." for every
\* argument that is empty or holds only whitespace.
C6_BlankGetsPrompt ==
  (Scored /\ Blank(call.arg)) => call.ret = Some(PLEASE_ENTER_SOME_TEXT)

\* the number of characters of s after strip() and the collapse of each
\* whitespace run: the characters of its words and one space between two
CleanedLength(s) ==
  LET words == split(s)
      RECURSIVE total(_)
      total(ws) == IF ws = <<>> THEN 0 ELSE Len(Head(ws)) + total(Tail(ws))
  IN total(words) + Len(words) - 1

LatinVowels(s) ==
  Cardinality({i \in 1..Len(s) : s[i] \in {97, 101, 105, 111, 117,
                                            65, 69, 73, 79, 85}})

\* q is 500 * V / L rounded to a whole number, a tie going to the even one
Rounded(q, V, L) ==
  LET d == 2 * (500 * V - q * L)
  IN /\ d <= L /\ -d <= L
     /\ (d = L \/ -d = L) => q % 2 = 0

\* C7: for an argument with a character that is not whitespace,
\* predict_beauty_score returns "Beauty Score for your text: S", S being
\* round((L mod 10) + 5 * V / L, 2) with L the length of the cleaned
\* argument and V the number of its Latin vowels of either case; "aeiou"
\* gives 10.0 and eleven times "b" gives 1.0.
C7_ScoreFormula ==
  (Scored /\ ~Blank(call.arg)) =>
     LET L == CleanedLength(call.arg)
         V == LatinVowels(call.arg)
     IN /\ \E q \in 0..500 :
             /\ Rounded(q, V, L)
             /\ call.ret =
                  Some(BEAUTY_SCORE_PREFIX \o format_float((L % 10) * 100 + q))
        /\ call.arg = <<97, 101, 105, 111, 117>> =>
             call.ret = Some(BEAUTY_SCORE_PREFIX \o <<49, 48, 46, 48>>)
        /\ call.arg = repeat(98, 11) =>
             call.ret = Some(BEAUTY_SCORE_PREFIX \o <<49, 46, 48>>)

\* eleven times "b" was scored 1.0
C7_Witness ==
  /\ Scored
  /\ call.arg = repeat(98, 11)
  /\ call.ret = Some(BEAUTY_SCORE_PREFIX \o <<49, 46, 48>>)

PostMewati ==
  /\ request.method = "POST" /\ request.path = "/"
  /\ request.form_id = Some("mewati")

\* the popup a display_* handler opened for the sentence it read
Opened(button, headers, rows) ==
  /\ event.shown = "popup" /\ ~event.raised /\ event.messagebox = None
  /\ popup # None
  /\ popup[1].title = button
  /\ popup[1].headers = headers
  /\ popup[1].rows = rows

\* C4: a lookup with a key of MORPH_FEATURES or SPACY_FEATURES as input
\* (POST / with form_id=mewati, display_morpho, display_spacy_analysis)
\* returns the rows stored for that key, in their order, and no error; the
\* first morphology key returns 4 rows, the first of them the row of the
\* temporal conjunction.
C4_KeyFound ==
  /\ \A i \in 1..Len(MorphLiteral) :
        /\ (PostMewati /\ request.mewati_text = Some(MorphLiteral[i].key)) =>
              /\ response.status = 200
              /\ response.context.mewati_rows = Some(MorphLiteral[i].value)
              /\ response.context.mewati_error = None
        /\ (event.button = "Morphological Features"
              /\ event.text = MorphLiteral[i].key) =>
              Opened("Morphological Features", MORPHO_HEADERS,
                     MorphLiteral[i].value)
  /\ \A i \in 1..Len(SpacyLiteral) :
        (event.button = "SpaCy Features" /\ event.text = SpacyLiteral[i].key) =>
           Opened("SpaCy Features", SPACY_HEADERS, SpacyLiteral[i].value)
  /\ (PostMewati /\ request.mewati_text = Some(MorphLiteral[1].key)) =>
        /\ Len(response.context.mewati_rows[1]) = 4
        /\ response.context.mewati_rows[1][1] =
             <<"\\u062c\\u0628", "\\u062c\\u0628",
               "Subordinating Conjunction (Temporal)", "\\u2014",
               "Introduces time clauses.">>

\* the first morphology key was posted and its 4 rows came back
C4_Witness ==
  /\ PostMewati /\ request.mewati_text = Some(MorphLiteral[1].key)
  /\ response.context.mewati_rows # None
  /\ Len(response.context.mewati_rows[1]) = 4

\* the sentence a GUI handler looked up
Sent == normalize_sentence(event.text)

\* the error box of a display_* handler that found no entry for Sent
NotFoundBox(prefix) ==
  /\ event.shown = "messagebox" /\ ~event.raised
  /\ event.messagebox = Some([title |-> "Not Found", message |-> prefix \o Sent])

IsKey(literal, s) == \E i \in 1..Len(literal) : literal[i].key = s

\* C5: for an input whose normalized sentence is not empty and is no key
\* of the table queried, the lookup does not fail: home answers 200 with
\* mewati_error carrying the normalized sentence and with no rows, and
\* display_morpho, display_spacy_analysis and display_gloss show the Not
\* Found box carrying the normalized sentence and open no popup.
C5_NotFound ==
  /\ PostMewati =>
        LET normalized == normalize_sentence(form_get(request.mewati_text)) IN
          (normalized # <<>> /\ ~IsKey(MorphLiteral, normalized)) =>
             /\ response.status = 200
             /\ response.context.mewati_rows \in {None, Some(<<>>)}
             /\ response.context.mewati_error =
                  Some(NO_FEATURES_FOUND_FOR \o normalized)
  /\ (event.button = "Morphological Features" /\ Sent # <<>>
        /\ ~IsKey(MorphLiteral, Sent)) => NotFoundBox(NO_MORPHO_FOR)
  /\ (event.button = "SpaCy Features" /\ Sent # <<>>
        /\ ~IsKey(SpacyLiteral, Sent)) => NotFoundBox(NO_SPACY_FOR)
  /\ (event.button = "Leipzig Glossing" /\ Sent # <<>>
        /\ ~IsKey(LeipzigLiteral, Sent)) => NotFoundBox(NO_GLOSS_FOR)

\* a sentence that differs from a key by an inner space was posted and
\* the error carries it
C5_Witness ==
  /\ PostMewati
  /\ request.mewati_text =
       Some(SubSeq(MorphLiteral[6].key, 1, 2) \o <<32, 32>> \o
            SubSeq(MorphLiteral[6].key, 3, Len(MorphLiteral[6].key)))
  /\ response.context.mewati_rows = None
  /\ response.context.mewati_error # None
  /\ response.context.mewati_error # Some(PLEASE_ENTER_A_SENTENCE)

PostBeauty ==
  /\ request.method = "POST" /\ request.path = "/"
  /\ request.form_id = Some("beauty")

\* C8: a blank submission of either sub-form of POST / is answered with a
\* prompt to enter text: beauty_result for form_id=beauty, mewati_error for
\* form_id=mewati, is a message that is not empty.
C8_BlankPrompt ==
  /\ (PostBeauty /\ Blank(form_get(request.text))) =>
        /\ response.status = 200
        /\ response.context.beauty_result # None
        /\ response.context.beauty_result # Some(<<>>)
  /\ (PostMewati /\ Blank(form_get(request.mewati_text))) =>
        /\ response.status = 200
        /\ response.context.mewati_error # None
        /\ response.context.mewati_error # Some(<<>>)

\* C9: GET /health is answered with status 200 and body "OK" in every
\* state, whatever requests were handled before it.
C9_HealthOK ==
  request.path = "/health" =>
     response = [NoResponse EXCEPT !.status = 200, !.body = Some("OK")]

\* /health was answered
C9_Witness ==
  /\ request.path = "/health"
  /\ response.status = 200 /\ response.body = Some("OK")

\* C10: the four tables equal their literals in every reachable state,
\* whatever requests and GUI actions were handled.
C10_TablesUnchanged ==
  /\ MORPH_FEATURES = MorphLiteral
  /\ SPACY_FEATURES = SpacyLiteral
  /\ LEIPZIG_ENTRIES = LeipzigLiteral
  /\ XBAR_TREES = XbarLiteral

\* a popup was opened, a row selected and copied, and the tree shown
C10_Witness ==
  /\ popup # None /\ popup[1].selection # {}
  /\ clipboard # None
  /\ event.shown = "tree"
  /\ SPACY_FEATURES = SpacyLiteral

\* what home passes to the page for a request, from the request alone
ContextOf(req) ==
  LET post == req.method = "POST"
      beauty == post /\ req.form_id = Some("beauty")
      mewati == post /\ req.form_id = Some("mewati")
      text == strip(form_get(req.text))
      sentence == strip(form_get(req.mewati_text))
      normalized == normalize_sentence(sentence)
      found == IsKey(MorphLiteral, normalized)
      entry == CHOOSE i \in 1..Len(MorphLiteral) :
                 found => MorphLiteral[i].key = normalized
  IN [beauty_input |-> IF beauty THEN text ELSE <<>>,
      beauty_result |-> IF beauty /\ text # <<>>
                        THEN Some(predict_beauty_score(text)) ELSE None,
      mewati_input |-> IF mewati THEN sentence ELSE <<>>,
      mewati_rows |-> IF mewati /\ normalized # <<>> /\ found
                      THEN Some(MorphLiteral[entry].value) ELSE None,
      mewati_error |->
        IF ~mewati \/ (normalized # <<>> /\ found) THEN None
        ELSE IF normalized = <<>> THEN Some(PLEASE_ENTER_A_SENTENCE)
        ELSE Some(NO_FEATURES_FOUND_FOR \o normalized),
      sample_sentences |->
        [i \in 1..SAMPLE_COUNT |-> MorphLiteral[i].key]]

\* C11: the values home passes to the page are a function of the method
\* and the form fields of the request it handles: whatever requests were
\* handled before, in whatever order, the response to a request to / is
\* the one its own fields determine.
C11_FunctionOfRequest ==
  request.path = "/" =>
     /\ response.status = 200
     /\ response.context = ContextOf(request)

\* a sentence was scored with nothing of an earlier lookup left in the
\* values passed to the page
C11_Witness ==
  /\ PostBeauty
  /\ response.context.beauty_result # None
  /\ response.context.mewati_input = <<>>
  /\ response.context.mewati_error = None

\* every key of table d is a normalized sentence
KeysNormalized(d) ==
  \A i \in 1..Len(d) : normalize_sentence(d[i].key) = d[i].key

\* C12: every key of each of the four lookup tables is a normalized
\* sentence, normalize_sentence(k) = k, so that a lookup with a normalized
\* input can reach every entry.
C12_KeysNormalized ==
  /\ KeysNormalized(MORPH_FEATURES)
  /\ KeysNormalized(SPACY_FEATURES)
  /\ KeysNormalized(LEIPZIG_ENTRIES)
  /\ KeysNormalized(XBAR_TREES)

\* s without its last character
WithoutLast(s) == SubSeq(s, 1, Len(s) - 1)

\* s ends with one of the three marks
EndsWithMark(s) == s # <<>> /\ s[Len(s)] \in MARKS

\* C17: every key of LEIPZIG_ENTRIES ends with a punctuation mark and is,
\* with that mark removed, a key of MORPH_FEATURES; and every key of
\* MORPH_FEATURES is obtained this way from exactly one key of
\* LEIPZIG_ENTRIES.
C17_KeysDifferByFinalMark ==
  /\ \A i \in 1..Len(LEIPZIG_ENTRIES) :
        /\ EndsWithMark(LEIPZIG_ENTRIES[i].key)
        /\ contains(MORPH_FEATURES, WithoutLast(LEIPZIG_ENTRIES[i].key))
  /\ \A j \in 1..Len(MORPH_FEATURES) :
        Cardinality({i \in 1..Len(LEIPZIG_ENTRIES) :
                       WithoutLast(LEIPZIG_ENTRIES[i].key)
                         = MORPH_FEATURES[j].key}) = 1

\* C16: the lookup of home is by exact equality. A POST / with
\* form_id=mewati carries rows exactly when the normalized input is equal
\* to a key of MORPH_FEATURES, and then the rows of that key; a normalized
\* input that differs from every key in any character gets no rows.
C16_ExactMatchOnly ==
  PostMewati =>
    LET normalized == normalize_sentence(form_get(request.mewati_text))
        rows == response.context.mewati_rows
    IN /\ (rows # None) <=> IsKey(MorphLiteral, normalized)
       /\ \A i \in 1..Len(MorphLiteral) :
             IF MorphLiteral[i].key = normalized
             THEN rows = Some(MorphLiteral[i].value)
             ELSE rows # Some(MorphLiteral[i].value)

\* the first word of a key alone was looked up and got no rows
C16_Witness ==
  /\ PostMewati
  /\ request.mewati_text # None
  /\ form_get(request.mewati_text) # <<>>
  /\ form_get(request.mewati_text) \in NearKeys(MorphLiteral[1].key)
  /\ Len(form_get(request.mewati_text)) < 4
  /\ response.context.mewati_rows = None

\* C19: after a POST / with form_id=mewati exactly one of mewati_rows and
\* mewati_error is set: either mewati_rows is a non-empty row sequence and
\* mewati_error is None, or mewati_rows is None or empty and mewati_error
\* is a non-empty message; also when the mewati_text field is missing.
C19_RowsXorError ==
  PostMewati =>
    LET rows == response.context.mewati_rows
        error == response.context.mewati_error
    IN \/ /\ rows # None /\ Len(rows[1]) > 0
          /\ error = None
       \/ /\ (rows = None \/ rows = Some(<<>>))
          /\ error # None /\ Len(error[1]) > 0

\* a POST with form_id=mewati without the mewati_text field got the
\* message and no rows
C19_Witness ==
  /\ PostMewati
  /\ request.mewati_text = None
  /\ response.context.mewati_rows = None
  /\ response.context.mewati_error = Some(PLEASE_ENTER_A_SENTENCE)

\* C20: home handles at most one sub-form per request. A POST with
\* form_id=beauty leaves mewati_input, mewati_rows and mewati_error at
\* their defaults whatever mewati_text holds; a POST with form_id=mewati
\* leaves beauty_input and beauty_result at their defaults whatever text
\* holds; a GET, or a POST with a missing or other form_id, leaves all
\* five at their defaults.
C20_OneSubForm ==
  request.path = "/" =>
    LET ctx == response.context
        beauty_untouched == /\ ctx.beauty_input = <<>>
                            /\ ctx.beauty_result = None
        mewati_untouched == /\ ctx.mewati_input = <<>>
                            /\ ctx.mewati_rows = None
                            /\ ctx.mewati_error = None
    IN /\ PostBeauty => mewati_untouched
       /\ PostMewati => beauty_untouched
       /\ ~PostBeauty /\ ~PostMewati => beauty_untouched /\ mewati_untouched

\* a beauty form was scored while the request also carried a sentence
\* that is a key of MORPH_FEATURES
C20_Witness ==
  /\ PostBeauty
  /\ request.mewati_text = Some(MorphLiteral[1].key)
  /\ response.context.beauty_result # None
  /\ response.context.mewati_rows = None

\* s holds one of the three marks
HasMark(s) == \E i \in 1..Len(s) : s[i] \in MARKS

\* C18: whatever the user typed, display_gloss shows the Not Found box and
\* opens no popup, and display_tree draws the tree build_xbar_tree makes
\* of the words of the normalized sentence; every key of LEIPZIG_ENTRIES
\* and of XBAR_TREES holds a mark, which the normalized sentence never
\* does, so no gloss entry and no stored tree is ever shown.
C18_GlossAndTreeUnreachable ==
  /\ \A i \in 1..Len(LEIPZIG_ENTRIES) : HasMark(LEIPZIG_ENTRIES[i].key)
  /\ \A i \in 1..Len(XBAR_TREES) : HasMark(XBAR_TREES[i].key)
  /\ event.button = "Leipzig Glossing" =>
        /\ NotFoundBox(NO_GLOSS_FOR)
        /\ ~HasMark(Sent)
  /\ popup # None => popup[1].title # "Leipzig Glossing"
  /\ event.button = "X-Bar Syntax Tree" =>
        /\ event.shown = "tree"
        /\ event.tree # None
        /\ event.tree[1].kind = "Tree"
        /\ event.tree = Some(build_xbar_tree(split(Sent), TRUE))

\* the user typed a key of LEIPZIG_ENTRIES exactly as the table has it and
\* pressed Leipzig Glossing
C18_Witness ==
  /\ event.button = "Leipzig Glossing"
  /\ event.text = LeipzigLiteral[1].key
  /\ event.shown = "messagebox"

Built == call.fn = "build_xbar_tree" /\ call.ret # None

\* the tokens build_xbar_tree works on: the placeholder alone for none
TokensOf(s) == IF split(s) = <<>> THEN << <<8212>> >> ELSE split(s)

\* t is the tree the claim describes for tokens
XbarShape(t, tokens) ==
  /\ t.kind = "Tree" /\ t.label = "TP"
  /\ Len(t.items) = 2
  /\ t.items[1] = [label |-> "DP", children |-> <<tokens[1]>>]
  /\ t.items[2].label = "T'"
  /\ Len(t.items[2].children) = 2
  /\ t.items[2].children[1] = [label |-> "T", children |-> << <<8230>> >>]
  /\ t.items[2].children[2].label = "VP"
  /\ t.items[2].children[2].children # <<>>
  /\ t.items[2].children[2].children =
       (IF Len(tokens) >= 2 THEN SubSeq(tokens, 2, Len(tokens))
        ELSE << <<8230>> >>)

\* C15 as claimed: for every token sequence build_xbar_tree returns the
\* tree TP(DP(first token), T'(T(placeholder), VP(remaining tokens, or one
\* placeholder when there is one token))), an empty sequence being
\* treated as the placeholder alone.
C15_AlwaysTree ==
  Built => XbarShape(call.ret[1], TokensOf(call.arg))

\* C15 as the code has it: that tree when nltk.Tree was imported; when the
\* import failed, the list ["TP", tokens] with the tokens not arranged.
C15_TreeOrList ==
  Built =>
    IF Tree_imported THEN XbarShape(call.ret[1], TokensOf(call.arg))
    ELSE call.ret[1] = [kind |-> "list", label |-> "TP",
                        items |-> TokensOf(call.arg)]

\* a tree was built of one word, with nltk.Tree imported
C15_Witness ==
  /\ Built /\ Tree_imported
  /\ Len(split(call.arg)) = 1
  /\ call.ret[1].kind = "Tree"

Idle == running = <<>>

\* C13: a button handler started through run_with_status runs to its end
\* before another one begins: at no time have two run_with_status calls
\* not returned, in whatever order the presses were queued.
C13_OneHandlerAtATime == Len(running) <= 1

\* C14: while the wrapped function of a run_with_status call runs, the
\* title is "Searching: <button> ..." and the cursor is the watch cursor;
\* and whenever no run_with_status call is under way the title is "Mewati
\* Language Model" and the cursor the default one.
C14_Bracketed ==
  /\ (~Idle /\ top.pc = "func") =>
        /\ title = searching(top.button)
        /\ cursor = "watch"
  /\ Idle => /\ title = "Mewati Language Model"
             /\ cursor = ""

\* the cells c[1..n] with a tab between neighbours
RECURSIVE Tabbed(_, _)
Tabbed(c, n) ==
  IF n = 0 THEN ""
  ELSE IF n = 1 THEN c[1]
  ELSE Tabbed(c, n - 1) \o "\\t" \o c[n]

\* row i of popup p is copied: it is selected, or no row is
Copied(p, i) == p.selection = {} \/ i \in p.selection

\* a newline and the tab-joined cells of every copied row among the first
\* k rows of popup p, in the order of the table
RECURSIVE RowLines(_, _)
RowLines(p, k) ==
  IF k = 0 THEN ""
  ELSE RowLines(p, k - 1) \o
       (IF Copied(p, k) THEN "\\n" \o Tabbed(p.rows[k], Len(p.rows[k]))
        ELSE "")

\* what the claim says the clipboard holds after a copy in popup p
ClipboardOf(p) ==
  Tabbed(p.headers, Len(p.headers)) \o RowLines(p, Len(p.rows))

\* C21: a copy in the popup leaves on the clipboard the tab-joined header
\* line followed by one tab-joined line per row, of the selected rows only
\* when some row is selected and of every row in table order when none
\* is, so that select-all and copy gives the headers and all rows; what
\* the clipboard held before is replaced.
C21_CopyReplacesClipboard ==
  [][clipboard' # clipboard =>
       /\ popup # None /\ popup' = popup
       /\ clipboard' = Some(ClipboardOf(popup[1]))]_vars

\* one row of several was selected and copied: the clipboard holds the
\* header line and the line of that row
C21_Witness ==
  /\ popup # None
  /\ Len(popup[1].rows) > 1
  /\ popup[1].selection = {1}
  /\ clipboard = Some(Tabbed(popup[1].headers, Len(popup[1].headers)) \o "\\n"
                      \o Tabbed(popup[1].rows[1], Len(popup[1].rows[1])))

====
